---- MODULE Spec2Model ----
(***************************************************************************)
(* Verification model of MrMustard's Bargmann (A,b,c) data algebra         *)
(* (lab/representations/data/abc_data.py, matvec_data.py) and of the       *)
(* compact Fock-amplitude recurrence sweep (math/compactFockAmplitudes.py).*)
(*                                                                         *)
(* Numbers are exact complex rationals <<re, im, den>> = (re + i*im)/den.  *)
(* A coefficient c is kept in the closed form  k * exp(e) / prod sqrt(r)   *)
(* so that exp and sqrt of the contraction formula stay exact.             *)
(* Indices are 0-based as in the source; sequences are 1-based, so an      *)
(* index n of the source is position n+1 of the modelling sequence.        *)
(***************************************************************************)
EXTENDS Integers, Sequences, FiniteSets, Bags, TLC

VARIABLES
    objs,       \* the ABCData objects alive, in creation order
    last,       \* the operation that ran last, its operands before it, its outcome
    pc,         \* which of the drivers is running: "abc" | "assoc" | "sweep" | "calls"
    assoc,      \* the marks and the results of the two groupings of X @ Y @ Z
    swM,        \* sweep: number of modes M
    swCutoff,   \* sweep: cutoff
    swPhase,    \* sweep: "call" | "allocated" | "loop" | "done" | "ValueError"
    swCount,    \* sweep: loop variable count of fock_representation_compact_NUMBA
    swParts,    \* sweep: the array get_partitions(M, count) that the inner loop is over
    swPos,      \* sweep: position in swParts
    swD,        \* sweep: -1 before use_diag_pivot of the current params, else next d
    written,    \* sweep: the cells <<array, index>> written so far
    badReads,   \* sweep: reads of cells that no earlier step of the run wrote
    badIdx,     \* sweep: reads or writes outside the allocated shape
    rewrites,   \* sweep: writes to a cell that had been written already
    readCells,  \* sweep: the cells read so far
    writer,     \* sweep: <<index, step>> for every write to arr0
    frames,     \* calls: one frame per call of fock_representation_compact, in call order
    heap        \* calls: the number of arrays allocated in the process so far

vars == <<objs, last, pc, assoc, swM, swCutoff, swPhase, swCount, swParts, swPos, swD,
          written, badReads, badIdx, rewrites, readCells, writer, frames, heap>>

abcVars == <<objs, last, pc, assoc>>
callVars == <<frames, heap>>
sweepVars == <<swM, swCutoff, swPhase, swCount, swParts, swPos, swD,
               written, badReads, badIdx, rewrites, readCells, writer>>

----------------------------------------------------------------------------
(* Exact complex rational numbers *)

Abs(n) == IF n < 0 THEN -n ELSE n

RECURSIVE GCD(_, _)
GCD(m, n) == IF n = 0 THEN m ELSE GCD(n, m % n)

Norm(a, b, d) ==
    LET g == GCD(GCD(Abs(a), Abs(b)), Abs(d))
        s == IF d < 0 THEN -1 ELSE 1
    IN  <<(s * a) \div g, (s * b) \div g, (s * d) \div g>>

Cx(a, b, d) == Norm(a, b, d)
Q(n, d) == Norm(n, 0, d)
Zero == <<0, 0, 1>>
One == <<1, 0, 1>>

NAdd(x, y) == Norm(x[1] * y[3] + y[1] * x[3], x[2] * y[3] + y[2] * x[3], x[3] * y[3])
NNeg(x) == <<-x[1], -x[2], x[3]>>
NSub(x, y) == NAdd(x, NNeg(y))
NMul(x, y) == Norm(x[1] * y[1] - x[2] * y[2], x[1] * y[2] + x[2] * y[1], x[3] * y[3])
NInv(x) == Norm(x[3] * x[1], -(x[3] * x[2]), x[1] * x[1] + x[2] * x[2])
NDiv(x, y) == NMul(x, NInv(y))
NConj(x) == <<x[1], -x[2], x[3]>>
NIsReal(x) == x[2] = 0

\* <<F(1), ..., F(n)>>
RECURSIVE Tab(_, _)
Tab(F(_), n) == IF n = 0 THEN <<>> ELSE Append(Tab(F, n - 1), F(n))

RECURSIVE NSum(_)
NSum(s) == IF s = <<>> THEN Zero ELSE NAdd(Head(s), NSum(Tail(s)))

----------------------------------------------------------------------------
(* Coefficients: k * exp(e) / prod_{r in rad} sqrt(r) *)

Coef(k, e, rad) == [k |-> k, e |-> e, rad |-> rad]
CNum(k) == Coef(k, Zero, EmptyBag)
COne == CNum(One)

\* c1 * c2
CMul(c1, c2) == Coef(NMul(c1.k, c2.k), NAdd(c1.e, c2.e), c1.rad (+) c2.rad)
\* scalar * c  /  c / scalar  /  -c
CScale(s, c) == Coef(NMul(s, c.k), c.e, c.rad)
CDivScalar(c, s) == Coef(NDiv(c.k, s), c.e, c.rad)
CNeg(c) == Coef(NNeg(c.k), c.e, c.rad)
\* c * exp(x)
CExp(c, x) == Coef(c.k, NAdd(c.e, x), c.rad)
\* c / sqrt(r); sqrt(1) = 1 leaves c as it is
CDivSqrt(c, r) == IF r = One THEN c ELSE Coef(c.k, c.e, c.rad (+) SetToBag({r}))
\* c1 + c2, which stays in closed form when the exponential and the roots agree
CAddable(c1, c2) == c1.e = c2.e /\ c1.rad = c2.rad
CAdd(c1, c2) == Coef(NAdd(c1.k, c2.k), c1.e, c1.rad)

----------------------------------------------------------------------------
(* Batched (A, b, c) triples: A a sequence of square matrices (sequences   *)
(* of rows), b a sequence of vectors, c a sequence of coefficients.        *)

Triple(A, b, c) == [A |-> A, b |-> b, c |-> c]

\* Data.dim: the number of variables, A.shape[-1]
Dim(T) == Len(T.b[1])
BatchSize(T) == Len(T.A)

\* range(lo, hi) of the source, as a sequence of 0-based indices
Range(lo, hi) == Tab(LAMBDA n : lo + n - 1, IF hi > lo THEN hi - lo ELSE 0)

\* math.block_diag(a1, a2)
block_diag(a1, a2) ==
    LET p == Len(a1)
        q == Len(a2)
    IN  Tab(LAMBDA r : Tab(LAMBDA s :
                IF r <= p /\ s <= p THEN a1[r][s]
                ELSE IF r > p /\ s > p THEN a2[r - p][s - p]
                ELSE Zero, p + q), p + q)

\* AndOp with the two loops exchanged: the entry for (i, j) at position j*p + i
AndOp_LoopsSwapped(X, Y) ==
    LET p == BatchSize(X)
        q == BatchSize(Y)
        I(n) == ((n - 1) % p) + 1
        J(n) == ((n - 1) \div p) + 1
    IN  Triple(Tab(LAMBDA n : block_diag(X.A[I(n)], Y.A[J(n)]), p * q),
               Tab(LAMBDA n : X.b[I(n)] \o Y.b[J(n)], p * q),
               Tab(LAMBDA n : CMul(X.c[I(n)], Y.c[J(n)]), p * q))

\* ABCData.__and__: the entry for the pair (i, j) is at position i*q + j
AndOp(X, Y) ==
    LET p == BatchSize(X)
        q == BatchSize(Y)
        I(n) == ((n - 1) \div q) + 1
        J(n) == ((n - 1) % q) + 1
    IN  Triple(Tab(LAMBDA n : block_diag(X.A[I(n)], Y.A[J(n)]), p * q),
               Tab(LAMBDA n : X.b[I(n)] \o Y.b[J(n)], p * q),
               Tab(LAMBDA n : CMul(X.c[I(n)], Y.c[J(n)]), p * q))

\* i_prev = j_prev = 1e32 before the first pair: larger than every index
PrevInit == 1000000

Bit(p) == IF p THEN 1 ELSE 0

\* the i of the n-th pair after "i = i - int(i_prev < i)"
RECURSIVE AdjI(_, _)
AdjI(xi, n) ==
    LET prev == IF n = 1 THEN PrevInit ELSE AdjI(xi, n - 1)
    IN  xi[n] - Bit(prev < xi[n])

\* AdjJ without the offset self.dim of the second operand's variables
RECURSIVE AdjJ_NoOffset(_, _, _)
AdjJ_NoOffset(yi, n, dimX) ==
    LET prev == IF n = 1 THEN PrevInit ELSE AdjJ_NoOffset(yi, n - 1, dimX)
    IN  yi[n] - Bit(prev < yi[n])

\* the j of the n-th pair after "j = j + self.dim - int(j_prev < j)"
RECURSIVE AdjJ(_, _, _)
AdjJ(yi, n, dimX) ==
    LET prev == IF n = 1 THEN PrevInit ELSE AdjJ(yi, n - 1, dimX)
    IN  yi[n] + dimX - Bit(prev < yi[n])

\* noij = list(range(i)) + list(range(i + 1, j)) + list(range(j + 1, graph.dim))
NoIJ(i, j, dim) == Range(0, i) \o Range(i + 1, j) \o Range(j + 1, dim)

\* the 2x2 block M of one batch entry, and its determinant
CouplingM(A, i, j) ==
    << <<A[i + 1][i + 1], NSub(A[j + 1][i + 1], One)>>,
       <<NSub(A[i + 1][j + 1], One), A[j + 1][j + 1]>> >>

Det2(M) == NSub(NMul(M[1][1], M[2][2]), NMul(M[1][2], M[2][1]))

\* math.inv of an invertible 2x2 matrix
Inv2(M) ==
    LET d == Det2(M)
    IN  << <<NDiv(M[2][2], d), NNeg(NDiv(M[1][2], d))>>,
           <<NNeg(NDiv(M[2][1], d)), NDiv(M[1][1], d)>> >>

\* D of one batch entry: columns i and j of A, rows noij
DBlock(A, i, j, noij) ==
    Tab(LAMBDA r : <<A[noij[r] + 1][i + 1], A[noij[r] + 1][j + 1]>>, Len(noij))

\* u^T Minv v for 2-vectors u, v
Quad2(u, Mi, v) ==
    NSum(<<NMul(NMul(u[1], Mi[1][1]), v[1]), NMul(NMul(u[1], Mi[1][2]), v[2]),
           NMul(NMul(u[2], Mi[2][1]), v[1]), NMul(NMul(u[2], Mi[2][2]), v[2])>>)

\* one pass of the loop body of ABCData.__matmul__ on graph G for the pair
\* (i, j). The einsum strings name no output, so the batch label b, which
\* occurs in every operand, is summed like j and k.
ContractPair(G, i, j) ==
    LET n == Dim(G)
        B == BatchSize(G)
        noij == NoIJ(i, j, n)
        m == Len(noij)
        Mi == Tab(LAMBDA t : Inv2(CouplingM(G.A[t], i, j)), B)
        D == Tab(LAMBDA t : DBlock(G.A[t], i, j, noij), B)
        bm == Tab(LAMBDA t : <<G.b[t][i + 1], G.b[t][j + 1]>>, B)
        corrA == Tab(LAMBDA r : Tab(LAMBDA s :
                     NSum(Tab(LAMBDA t : Quad2(D[t][r], Mi[t], D[t][s]), B)), m), m)
        corrb == Tab(LAMBDA r : NSum(Tab(LAMBDA t : Quad2(D[t][r], Mi[t], bm[t]), B)), m)
        ex == NSum(Tab(LAMBDA t : Quad2(bm[t], Mi[t], bm[t]), B))
    IN  Triple(Tab(LAMBDA t : Tab(LAMBDA r : Tab(LAMBDA s :
                    NSub(G.A[t][noij[r] + 1][noij[s] + 1], corrA[r][s]), m), m), B),
               Tab(LAMBDA t : Tab(LAMBDA r : NSub(G.b[t][noij[r] + 1], corrb[r]), m), B),
               Tab(LAMBDA t :
                    CDivSqrt(CExp(G.c[t], NNeg(NDiv(ex, Q(2, 1)))),
                             NNeg(Det2(CouplingM(G.A[t], i, j)))), B))

\* math.inv fails on the pair (i, j): some batch entry has a singular M
SingularPair(G, i, j) ==
    \E t \in 1..BatchSize(G) : Det2(CouplingM(G.A[t], i, j)) = Zero

Min(a, b) == IF a < b THEN a ELSE b

\* zip(self._contract_idxs, other._contract_idxs) stops at the shorter tuple
NumPairs(xi, yi) == Min(Len(xi), Len(yi))

\* a __matmul__ that inverts M for the pair of its last pass only
MatMulRaises_LastPairOnly(X, xi, Y, yi) ==
    LET G == AndOp(X, Y)
        K == NumPairs(xi, yi)
    IN  K > 0 /\ SingularPair(G, AdjI(xi, K), AdjJ(yi, K, Dim(X)))

\* ABCData.__matmul__: every pass reads graph, so the triple returned is the
\* one computed by the last pass; a singular M in any pass raises.
MatMulRaises(X, xi, Y, yi) ==
    LET G == AndOp(X, Y)
    IN  \E n \in 1..NumPairs(xi, yi) : SingularPair(G, AdjI(xi, n), AdjJ(yi, n, Dim(X)))

MatMulOp(X, xi, Y, yi) ==
    LET G == AndOp(X, Y)
        K == NumPairs(xi, yi)
    IN  IF K = 0 THEN G
        ELSE ContractPair(G, AdjI(xi, K), AdjJ(yi, K, Dim(X)))


----------------------------------------------------------------------------
(* MatVecData arithmetic *)

\* MatVecData.__neg__
NegOp(X) == Triple(X.A, X.b, Tab(LAMBDA n : CNeg(X.c[n]), Len(X.c)))

\* MatVecData.__truediv__
TrueDivOp(X, s) == Triple(X.A, X.b, Tab(LAMBDA n : CDivScalar(X.c[n], s), Len(X.c)))

\* ABCData.__mul__ with a scalar
MulScalarOp(X, s) == Triple(X.A, X.b, Tab(LAMBDA n : CScale(s, X.c[n]), Len(X.c)))

\* np.allclose of two batched arrays: a batch of 1 broadcasts over the other
AllClose(u, v) ==
    IF Len(u) = Len(v) THEN u = v
    ELSE IF Len(u) = 1 THEN \A n \in 1..Len(v) : v[n] = u[1]
    ELSE IF Len(v) = 1 THEN \A n \in 1..Len(u) : u[n] = v[1]
    ELSE FALSE

\* batch shapes that numpy cannot broadcast
NoBroadcast(u, v) == Len(u) # Len(v) /\ Len(u) # 1 /\ Len(v) # 1

\* Data.same(X = [mat, vec], Y = [mat, vec])
Same(X, Y) == AllClose(X.A, Y.A) /\ AllClose(X.b, Y.b)

\* reorder_matrix_from_qpqp_to_qqpp(n) as the index map it applies:
\* position r of the result takes the entry 0, 2, 4, ..., 1, 3, 5, ...
QpqpToQqpp(n) ==
    LET h == (n + 1) \div 2
    IN  [r \in 1..n |-> IF r <= h THEN 2 * (r - 1) ELSE 2 * (r - h - 1) + 1]

Max(a, b) == IF a > b THEN a ELSE b

\* coeffs + coeffs with numpy broadcasting
BroadcastAdd(c1, c2) ==
    [n \in 1..Max(Len(c1), Len(c2)) |->
        CAdd(c1[IF Len(c1) = 1 THEN 1 ELSE n], c2[IF Len(c2) = 1 THEN 1 ELSE n])]

\* MatVecData.__add__
AddOp(X, Y) ==
    IF Same(X, Y)
    THEN Triple(X.A, X.b, BroadcastAdd(X.c, Y.c))
    ELSE LET mat == X.A \o Y.A
             vec == X.b \o Y.b
             n == Len(X.A[1])
             perm == QpqpToQqpp(n)
         IN  Triple([t \in 1..Len(mat) |-> [r \in 1..n |-> [s \in 1..n |->
                         mat[t][perm[r] + 1][perm[s] + 1]]]],
                    [t \in 1..Len(vec) |-> [r \in 1..n |-> vec[t][perm[r] + 1]]],
                    X.c \o Y.c)

\* np.allclose raises on batches it cannot broadcast
AddRaises(X, Y) == NoBroadcast(X.A, Y.A)

----------------------------------------------------------------------------
(* Triples of lab_dev and of the physics tests *)

ImagUnit == <<0, 1, 1>>

\* x + 1j*y for rationals x, y
Alpha(x, y) == NAdd(x, NMul(ImagUnit, y))

\* |x + 1j*y|^2
AbsSq(x, y) == NAdd(NMul(x, x), NMul(y, y))

\* Dgate.representation for num_modes modes with xs, ys already of that length
DgateRep(xs, ys) ==
    LET M == Len(xs)
    IN  Triple(<< [r \in 1..(2 * M) |-> [s \in 1..(2 * M) |->
                      IF r - s = M \/ s - r = M THEN One ELSE Zero]] >>,
               << [r \in 1..M |-> Alpha(xs[r], ys[r])] \o
                  [r \in 1..M |-> Alpha(NNeg(xs[r]), ys[r])] >>,
               << Coef(One, NNeg(NDiv(NSum([r \in 1..M |-> AbsSq(xs[r], ys[r])]), Q(2, 1))),
                       EmptyBag) >>)

\* vacuum_state_Abc_triples(n_modes)
VacuumRep(M) ==
    Triple(<< [r \in 1..M |-> [s \in 1..M |-> Zero]] >>, << [r \in 1..M |-> Zero] >>, <<COne>>)

\* coherent_state_Abc_triples(x, y) on one mode
CoherentRep(x, y) ==
    Triple(<< <<<<Zero>>>> >>, << <<Alpha(x, y)>> >>,
           << Coef(One, NNeg(NDiv(AbsSq(x, y), Q(2, 1))), EmptyBag) >>)


----------------------------------------------------------------------------
(* The objects and the operations applied to them *)

\* longest tuple of indices a __getitem__ call is given
MaxMarks == 2

\* an ABCData object: MatVecData.__init__ sets mat, vec and coeffs only, so
\* _contract_idxs does not exist (marked = FALSE) until __getitem__ has run
Obj(T) == [A |-> T.A, b |-> T.b, c |-> T.c, marked |-> FALSE, idx |-> <<>>]
Data(o) == Triple(o.A, o.b, o.c)

\* a three-variable triple with one batch entry
G3 ==
    Triple(<< << <<Q(1, 2), Q(1, 3), Zero>>,
                 <<Q(1, 3), Q(-1, 2), Q(1, 4)>>,
                 <<Zero, Q(1, 4), Q(1, 3)>> >> >>,
           << <<One, Q(-1, 2), Q(2, 1)>> >>,
           << CNum(Q(3, 1)) >>)

\* a one-variable triple with two batch entries
B2 ==
    Triple(<< <<<<Q(1, 2)>>>>, <<<<Q(-1, 3)>>>> >>,
           << <<One>>, <<Cx(0, 1, 2)>> >>,
           << CNum(Q(2, 1)), CNum(Cx(1, 1, 1)) >>)

\* displacements of the Dgate object
XYs == {<<Q(1, 10), Zero>>, <<Q(-1, 2), Q(1, 2)>>}

\* scalars of __mul__ and __truediv__
Scalars == {Q(2, 1), Cx(0, -1, 2), Q(-1, 3)}

\* tuples of distinct indices into n variables
IdxTuples(n) ==
    {t \in UNION {[1..k -> 0..(n - 1)] : k \in 1..MaxMarks} :
        \A a, b \in DOMAIN t : a # b => t[a] # t[b]}

NoRes == [A |-> <<>>, b |-> <<>>, c |-> <<>>]

Log(op, x, y, arg, out, res, kept) ==
    [op |-> op, x |-> x, y |-> y, arg |-> arg, pre |-> Tab(LAMBDA n : Data(objs[n]), Len(objs)),
     out |-> out, res |-> res, kept |-> kept]

CallsIdle == frames = <<>> /\ heap = 0

SweepIdle ==
    /\ swM = 0 /\ swCutoff = 0 /\ swPhase = "idle" /\ swCount = 0 /\ swParts = <<>>
    /\ swPos = 0
    /\ swD = 0 /\ written = {} /\ badReads = {} /\ badIdx = {} /\ rewrites = {}
    /\ readCells = {} /\ writer = {}

InitABC ==
    /\ objs \in {<<Obj(VacuumRep(1)), Obj(DgateRep(<<xy[1]>>, <<xy[2]>>)), Obj(G3), Obj(B2)>> :
                    xy \in XYs}
    /\ last = [op |-> "init", x |-> 0, y |-> 0, arg |-> <<>>, pre |-> <<>>,
               out |-> "ok", res |-> NoRes, kept |-> <<>>]
    /\ pc = "abc"
    /\ assoc = <<>>
    /\ SweepIdle
    /\ CallsIdle

\* ABCData.__getitem__: stores the tuple on self and returns self
GetItemObjs(os, x, idx) == [os EXCEPT ![x].marked = TRUE, ![x].idx = idx]

GetItem(x, idx) ==
    /\ pc = "abc"
    /\ objs' = GetItemObjs(objs, x, idx)
    /\ last' = Log("getitem", x, 0, idx, "ok", Data(objs[x]), <<>>)
    /\ UNCHANGED <<pc, assoc, sweepVars, callVars>>

\* what ABCData.__matmul__ leaves of its operands: it assigns to neither
MatMulObjs(os, x, y) == os

\* the graph indices that the returned triple is over (noij of the last pass)
KeptVars(X, xi, Y, yi) ==
    LET K == NumPairs(xi, yi)
    IN  IF K = 0 THEN Range(0, Dim(X) + Dim(Y))
        ELSE NoIJ(AdjI(xi, K), AdjJ(yi, K, Dim(X)), Dim(X) + Dim(Y))

MatMul(x, y) ==
    /\ pc = "abc"
    /\ objs' = MatMulObjs(objs, x, y)
    /\ LET X == Data(objs[x])
           Y == Data(objs[y])
           xi == objs[x].idx
           yi == objs[y].idx
       IN  last' =
             IF ~objs[x].marked \/ ~objs[y].marked
             THEN Log("matmul", x, y, <<>>, "AttributeError", NoRes, <<>>)
             ELSE IF MatMulRaises(X, xi, Y, yi)
             THEN Log("matmul", x, y, <<xi, yi>>, "LinAlgError", NoRes, <<>>)
             ELSE Log("matmul", x, y, <<xi, yi>>, "ok", MatMulOp(X, xi, Y, yi),
                      KeptVars(X, xi, Y, yi))
    /\ UNCHANGED <<pc, assoc, sweepVars, callVars>>

And(x, y) ==
    /\ pc = "abc"
    /\ last' = Log("and", x, y, <<>>, "ok", AndOp(Data(objs[x]), Data(objs[y])), <<>>)
    /\ UNCHANGED <<objs, pc, assoc, sweepVars, callVars>>

Add(x, y) ==
    /\ pc = "abc"
    /\ Dim(Data(objs[x])) = Dim(Data(objs[y]))
    /\ last' = IF AddRaises(Data(objs[x]), Data(objs[y]))
               THEN Log("add", x, y, <<>>, "ValueError", NoRes, <<>>)
               ELSE Log("add", x, y, <<>>, "ok", AddOp(Data(objs[x]), Data(objs[y])), <<>>)
    /\ UNCHANGED <<objs, pc, assoc, sweepVars, callVars>>

\* a scalar operation that scales self.coeffs in place
ScalarOpObjs_InPlace(os, x) ==
    [os EXCEPT ![x].c = Tab(LAMBDA n : CNeg(os[x].c[n]), Len(os[x].c))]

\* what the scalar operations leave of their operand
ScalarOpObjs(os, x) == os

Neg(x) ==
    /\ pc = "abc"
    /\ objs' = ScalarOpObjs(objs, x)
    /\ last' = Log("neg", x, 0, <<>>, "ok", NegOp(Data(objs[x])), <<>>)
    /\ UNCHANGED <<pc, assoc, sweepVars, callVars>>

MulScalar(x, s) ==
    /\ pc = "abc"
    /\ objs' = ScalarOpObjs(objs, x)
    /\ last' = Log("mul", x, 0, s, "ok", MulScalarOp(Data(objs[x]), s), <<>>)
    /\ UNCHANGED <<pc, assoc, sweepVars, callVars>>

TrueDiv(x, s) ==
    /\ pc = "abc"
    /\ objs' = ScalarOpObjs(objs, x)
    /\ last' = Log("truediv", x, 0, s, "ok", TrueDivOp(Data(objs[x]), s), <<>>)
    /\ UNCHANGED <<pc, assoc, sweepVars, callVars>>

NextABC ==
    \/ \E x \in DOMAIN objs : \E idx \in IdxTuples(Dim(Data(objs[x]))) : GetItem(x, idx)
    \/ \E x, y \in DOMAIN objs : MatMul(x, y)

\* marking and contraction
SpecABC == InitABC /\ [][NextABC]_vars

\* a two-variable triple whose diagonal is the inverse of entries of G3's
X2 ==
    Triple(<< << <<Q(2, 1), Q(1, 4)>>, <<Q(1, 4), Q(3, 1)>> >> >>,
           << <<Q(1, 2), One>> >>, <<COne>>)

InitSingular ==
    /\ objs = <<Obj(X2), Obj(G3)>>
    /\ last = [op |-> "init", x |-> 0, y |-> 0, arg |-> <<>>, pre |-> <<>>,
               out |-> "ok", res |-> NoRes, kept |-> <<>>]
    /\ pc = "abc"
    /\ assoc = <<>>
    /\ SweepIdle
    /\ CallsIdle

\* marking and contraction of triples of which some pairs have a singular M
SpecSingular == InitSingular /\ [][NextABC]_vars

NextArith ==
    \/ \E x, y \in DOMAIN objs : And(x, y)
    \/ \E x, y \in DOMAIN objs : Add(x, y)
    \/ \E x \in DOMAIN objs : Neg(x)
    \/ \E x \in DOMAIN objs : \E s \in Scalars : MulScalar(x, s)
    \/ \E x \in DOMAIN objs : \E s \in Scalars : TrueDiv(x, s)

\* sum, tensor product and scaling
SpecArith == InitABC /\ [][NextArith]_vars

----------------------------------------------------------------------------
(* Properties of marking and contraction *)

IsMatMulOk == last.op = "matmul" /\ last.out = "ok"

\* the indices of 0..n-1 that idx does not name, ascending
RECURSIVE Unmarked(_, _)
Unmarked(n, idx) ==
    IF n = 0 THEN <<>>
    ELSE LET rest == Unmarked(n - 1, idx)
         IN  IF \E a \in DOMAIN idx : idx[a] = n - 1 THEN rest ELSE Append(rest, n - 1)

\* C1: X[i1..ik] @ Y[j1..jk] with k >= 1 pairs returns a triple over exactly
\* p + q - 2k variables, namely the unmarked variables of X followed by the
\* unmarked variables of Y, in their original order.
C1_ContractEliminatesAllMarked ==
    (IsMatMulOk /\ Len(last.arg[1]) = Len(last.arg[2])) =>
        LET p == Dim(last.pre[last.x])
            q == Dim(last.pre[last.y])
            k == Len(last.arg[1])
        IN  /\ Dim(last.res) = p + q - 2 * k
            /\ \A t \in 1..BatchSize(last.res) : Len(last.res.A[t]) = p + q - 2 * k
            /\ last.kept = Unmarked(p, last.arg[1]) \o
                           Tab(LAMBDA n : Unmarked(q, last.arg[2])[n] + p,
                               Len(Unmarked(q, last.arg[2])))

\* C1 restricted to one marked pair, which the code satisfies
C1_SinglePairEliminated ==
    (IsMatMulOk /\ Len(last.arg[1]) = 1 /\ Len(last.arg[2]) = 1) =>
        C1_ContractEliminatesAllMarked

\* C4: X[idx] leaves A, b and c of X as they were, and after X[idx] @ Y[jdx]
\* has returned neither X nor Y carries a marked-index annotation.
C4_MarkingIsTransient ==
    /\ last.op = "getitem" => Data(objs[last.x]) = last.pre[last.x]
    /\ IsMatMulOk =>
          /\ ~objs[last.x].marked /\ ~objs[last.y].marked
          /\ Data(objs[last.x]) = last.pre[last.x]
          /\ Data(objs[last.y]) = last.pre[last.y]

\* the part of C4 the code satisfies: marking and contracting leave A, b, c
C4_MarkingKeepsData ==
    (last.op = "getitem" \/ last.op = "matmul") =>
        \A n \in DOMAIN objs : Data(objs[n]) = last.pre[n]

\* the permutations of 1..k
Perms(k) == {f \in [1..k -> 1..k] : \A a, b \in 1..k : a # b => f[a] # f[b]}

\* C5: for k >= 2 pairs the triple returned is the same for every order in
\* which the pairs are listed (both index lists permuted alike).
C5_PairOrderIrrelevant ==
    (IsMatMulOk /\ Len(last.arg[1]) = Len(last.arg[2]) /\ Len(last.arg[1]) >= 2) =>
        LET X == last.pre[last.x]
            Y == last.pre[last.y]
            xi == last.arg[1]
            yi == last.arg[2]
            k == Len(xi)
        IN  \A f \in Perms(k) :
                LET xf == Tab(LAMBDA n : xi[f[n]], k)
                    yf == Tab(LAMBDA n : yi[f[n]], k)
                IN  /\ ~MatMulRaises(X, xf, Y, yf)
                    /\ MatMulOp(X, xf, Y, yf) = last.res

\* C10: the displacement-gate triple contracted on its input variable (index
\* 1) with the vacuum triple gives the coherent-state triple of the same alpha.
C10_DgateOnVacuumIsCoherent ==
    \A xy \in XYs :
        (/\ last.op = "matmul"
         /\ last.pre[last.x] = DgateRep(<<xy[1]>>, <<xy[2]>>)
         /\ last.pre[last.y] = VacuumRep(1)
         /\ last.arg = << <<1>>, <<0>> >>) =>
            /\ last.out = "ok"
            /\ last.res = CoherentRep(xy[1], xy[2])

C10_Witness ==
    /\ IsMatMulOk
    /\ last.pre[last.y] = VacuumRep(1)
    /\ last.arg = << <<1>>, <<0>> >>
    /\ last.pre[last.x] = DgateRep(<<Q(-1, 2)>>, <<Q(1, 2)>>)
    /\ last.res.b[1][1] = Cx(-1, 1, 2)


----------------------------------------------------------------------------
(* Properties of sum, tensor product and scaling *)

\* C7: for X (batch p) and Y (batch q) over the same number of variables,
\* X + Y has batch size p + q, its first p entries being those of X and its
\* last q those of Y, unaltered; also when Y is X.
C7_AddConcatenates ==
    last.op = "add" =>
        LET X == last.pre[last.x]
            Y == last.pre[last.y]
            p == BatchSize(X)
            q == BatchSize(Y)
            R == last.res
        IN  /\ last.out = "ok"
            /\ Len(R.A) = p + q /\ Len(R.b) = p + q /\ Len(R.c) = p + q
            /\ \A n \in 1..p : R.A[n] = X.A[n] /\ R.b[n] = X.b[n] /\ R.c[n] = X.c[n]
            /\ \A n \in 1..q :
                  R.A[p + n] = Y.A[n] /\ R.b[p + n] = Y.b[n] /\ R.c[p + n] = Y.c[n]

\* C8: X & Y has batch size p*q and its entry i*q + j is
\* (block_diag(A_i, A'_j), b_i followed by b'_j, c_i * c'_j).
C8_AndIsPairwiseProduct ==
    last.op = "and" =>
        LET X == last.pre[last.x]
            Y == last.pre[last.y]
            p == BatchSize(X)
            q == BatchSize(Y)
            m == Dim(X)
            n == Dim(Y)
            R == last.res
        IN  /\ last.out = "ok"
            /\ Len(R.A) = p * q /\ Len(R.b) = p * q /\ Len(R.c) = p * q
            /\ \A i \in 0..(p - 1), j \in 0..(q - 1) :
                  LET e == i * q + j + 1
                  IN  /\ Len(R.A[e]) = m + n
                      /\ \A r, s \in 1..(m + n) :
                            R.A[e][r][s] =
                                IF r <= m /\ s <= m THEN X.A[i + 1][r][s]
                                ELSE IF r > m /\ s > m THEN Y.A[j + 1][r - m][s - m]
                                ELSE Zero
                      /\ R.b[e] = X.b[i + 1] \o Y.b[j + 1]
                      /\ R.c[e].k = NMul(X.c[i + 1].k, Y.c[j + 1].k)
                      /\ R.c[e].e = NAdd(X.c[i + 1].e, Y.c[j + 1].e)
                      /\ R.c[e].rad = X.c[i + 1].rad (+) Y.c[j + 1].rad

C8_Witness ==
    /\ last.op = "and" /\ last.out = "ok"
    /\ BatchSize(last.pre[last.x]) = 2 /\ BatchSize(last.pre[last.y]) = 2
    /\ BatchSize(last.res) = 4
    /\ last.res.b[2] # last.res.b[3]

\* C9: negation, multiplication by a scalar and division by a scalar return
\* A and b of the operand with c negated, multiplied or divided, and leave
\* the operand's own A, b and c as they were.
C9_ScalarOpsTouchOnlyC ==
    (last.op = "neg" \/ last.op = "mul" \/ last.op = "truediv") =>
        LET X == last.pre[last.x]
            R == last.res
        IN  /\ last.out = "ok"
            /\ R.A = X.A /\ R.b = X.b /\ Len(R.c) = Len(X.c)
            /\ \A n \in 1..Len(X.c) :
                  /\ R.c[n].e = X.c[n].e /\ R.c[n].rad = X.c[n].rad
                  /\ last.op = "neg" => NAdd(R.c[n].k, X.c[n].k) = Zero
                  /\ last.op = "mul" => R.c[n].k = NMul(last.arg, X.c[n].k)
                  /\ last.op = "truediv" => NMul(R.c[n].k, last.arg) = X.c[n].k
            /\ Data(objs[last.x]) = X

C9_Witness ==
    /\ last.op = "truediv" /\ last.out = "ok"
    /\ last.arg = Cx(0, -1, 2)
    /\ BatchSize(last.pre[last.x]) = 2
    /\ last.res.c[2].k = Cx(-2, 2, 1)
    /\ Data(objs[last.x]) = B2


----------------------------------------------------------------------------
(* The compact Fock-amplitude recurrence: which cells of arr0, arr1, arr2   *)
(* and arr11 each step reads and writes. A cell is <<array, index tuple>>.  *)

MaxModes == 3
MaxCutoff == 3

\* scipy.special.binom(m, n) for the entries of BINOM
RECURSIVE binom(_, _)
binom(m, n) ==
    IF n = 0 THEN 1
    ELSE IF m = 0 THEN 0
    ELSE binom(m - 1, n - 1) + binom(m - 1, n)

len_lvl(M, N) == binom(M - 1 + N, N)

\* get_partitions(M, N): the rows T .. T + len_lvl(M-1, N-n) - 1 of pivots get
\* n in column 0 and get_partitions(M-1, N-n) in the other columns
RECURSIVE get_partitions(_, _)
RECURSIVE FillPivots(_, _, _, _, _)
FillPivots(M, N, n, T, pivots) ==
    IF n > N THEN pivots
    ELSE LET L == len_lvl(M - 1, N - n)
             sub == get_partitions(M - 1, N - n)
         IN  FillPivots(M, N, n + 1, T + L,
                 Tab(LAMBDA r : IF T < r /\ r <= T + L THEN <<n>> \o sub[r - T]
                                ELSE pivots[r], Len(pivots)))

get_partitions(M, N) ==
    IF M = 1 THEN << <<N>> >>
    ELSE FillPivots(M, N, 0, 0, Tab(LAMBDA r : Tab(LAMBDA c : 0, M), len_lvl(M, N)))

\* tuple_setitem(tup, k, v) with the 0-based position k
tuple_setitem(tup, k, v) == [tup EXCEPT ![k + 1] = v]

zero_tuple(M) == Tab(LAMBDA n : 0, M + 2)

fill_tuple_tail_Array0(tup, params, M) ==
    Tab(LAMBDA n : IF n - 1 >= 2 /\ n - 1 < M + 2 THEN params[n - 2] ELSE tup[n], Len(tup))

RECURSIVE FillArray2From(_, _, _, _, _)
FillArray2From(tup, idx0, params, M, x) ==
    IF x >= M THEN tup
    ELSE FillArray2From(
            IF x < idx0 THEN tuple_setitem(tup, x + 3, params[x + 1])
            ELSE IF x > idx0 THEN tuple_setitem(tup, x + 2, params[x + 1])
            ELSE tup,
            idx0, params, M, x + 1)

fill_tuple_tail_Array2(tup, idx0, params, M) == FillArray2From(tup, idx0, params, M, 0)

RECURSIVE FillArray11From(_, _, _, _, _, _)
FillArray11From(tup, idx0, idx1, params, M, x) ==
    IF x >= M THEN tup
    ELSE FillArray11From(
            IF x < idx0 THEN tuple_setitem(tup, x + 4, params[x + 1])
            ELSE IF idx0 < x /\ x < idx1 THEN tuple_setitem(tup, x + 3, params[x + 1])
            ELSE IF idx1 < x THEN tuple_setitem(tup, x + 2, params[x + 1])
            ELSE tup,
            idx0, idx1, params, M, x + 1)

fill_tuple_tail_Array11(tup, idx0, idx1, params, M) ==
    FillArray11From(tup, idx0, idx1, params, M, 0)

\* ids = cumsum([0, M-1, M-2, ..., 2]); ids[idx0] + idx1 - idx0 - 1
RECURSIVE IdsAt(_, _)
IdsAt(k, M) == IF k = 0 THEN 0 ELSE IdsAt(k - 1, M) + (M - k)

index_above_diagonal(idx0, idx1, M) == IdsAt(idx0, M) + idx1 - idx0 - 1

\* calc_staggered_range_2M(M)[i]: 1, 0, 3, 2, ...
staggered_range(i) == IF i % 2 = 0 THEN i + 1 ELSE i - 1

\* the shapes allocated by fock_representation_compact
Shape(arr, M, cutoff) ==
    CASE arr = "arr0" -> <<1, 1>> \o Tab(LAMBDA n : cutoff, M)
      [] arr = "arr2" -> <<1, M, cutoff - 2>> \o Tab(LAMBDA n : cutoff, M - 1)
      [] arr = "arr11" ->
            IF M = 1 THEN <<1, 1, 1>>
            ELSE <<3, (M * (M - 1)) \div 2, cutoff - 1, cutoff - 1>> \o
                 Tab(LAMBDA n : cutoff, M - 2)
      [] arr = "arr1" -> <<1, 2 * M, cutoff - 1>> \o Tab(LAMBDA n : cutoff, M - 1)

Arrays == {"arr0", "arr1", "arr2", "arr11"}

\* np.zeros raises ValueError on a negative dimension
AllocRaises(M, cutoff) ==
    \E arr \in Arrays : \E k \in DOMAIN Shape(arr, M, cutoff) : Shape(arr, M, cutoff)[k] < 0

InShape(cell, M, cutoff) ==
    LET sh == Shape(cell[1], M, cutoff)
    IN  /\ Len(cell[2]) = Len(sh)
        /\ \A k \in DOMAIN sh : 0 <= cell[2][k] /\ cell[2][k] < sh[k]

\* the cell use_diag_pivot reads for index i of Array1
DiagRead(params, i, M) ==
    <<"arr1", fill_tuple_tail_Array2(
                  tuple_setitem(tuple_setitem(zero_tuple(M), 1, staggered_range(i)),
                                2, params[(i \div 2) + 1] - 1),
                  i \div 2, params, M)>>

\* use_diag_pivot, READ: arr0 at the pivot, arr1 for every i with params[i//2] > 0
DiagReads(params, M) ==
    {<<"arr0", fill_tuple_tail_Array0(zero_tuple(M), params, M)>>}
    \cup {DiagRead(params, i, M) : i \in {i \in 0..(2 * M - 1) : params[(i \div 2) + 1] > 0}}

DiagWrite(params, i, M) ==
    <<"arr1", fill_tuple_tail_Array2(
                  tuple_setitem(tuple_setitem(zero_tuple(M), 1, i), 2, params[(i \div 2) + 1]),
                  i \div 2, params, M)>>

\* a use_diag_pivot that stops writing one level early
DiagWrites_Short(params, M, cutoff) ==
    {DiagWrite(params, i, M) :
        i \in {i \in 0..(2 * M - 1) : params[(i \div 2) + 1] + 2 < cutoff}}

\* use_diag_pivot, WRITE: arr1 for every i with params[i//2] + 1 < cutoff
DiagWrites(params, M, cutoff) ==
    {DiagWrite(params, i, M) :
        i \in {i \in 0..(2 * M - 1) : params[(i \div 2) + 1] + 1 < cutoff}}

\* index into arr11 for the mode pair lo < hi, with the given leading entry
Arr11Cell(c, lo, hi, vlo, vhi, params, M) ==
    <<"arr11", tuple_setitem(
                  fill_tuple_tail_Array11(
                      tuple_setitem(tuple_setitem(
                          tuple_setitem(zero_tuple(M), 1, index_above_diagonal(lo, hi, M)),
                          2, vlo), 3, vhi),
                      lo, hi, params, M),
                  0, c)>>

\* use_offDiag_pivot, READ
OffDiagReads(params, d, M) ==
    LET pd == params[d + 1]
    IN  {<<"arr1", fill_tuple_tail_Array2(
                       tuple_setitem(tuple_setitem(zero_tuple(M), 1, 2 * d), 2, pd),
                       d, params, M)>>,
         <<"arr0", fill_tuple_tail_Array0(zero_tuple(M), params, M)>>}
        \cup (IF pd > 0
              THEN {<<"arr2", fill_tuple_tail_Array2(
                                  tuple_setitem(tuple_setitem(zero_tuple(M), 1, d), 2, pd - 1),
                                  d, params, M)>>}
              ELSE {})
        \cup UNION {{Arr11Cell(1, d, i, pd, params[i + 1] - 1, params, M),
                     Arr11Cell(0, d, i, pd, params[i + 1] - 1, params, M)} :
                    i \in {i \in (d + 1)..(M - 1) : params[i + 1] > 0}}
        \cup UNION {{Arr11Cell(2, i, d, params[i + 1] - 1, pd, params, M),
                     Arr11Cell(0, i, d, params[i + 1] - 1, pd, params, M)} :
                    i \in {i \in 0..(d - 1) : params[i + 1] > 0}}

\* a use_offDiag_pivot that writes arr0 for every d
WritesArr0_Always(params, d) == d >= 0

\* a use_offDiag_pivot that writes arr0 from the first mode only
WritesArr0_OnlyFirstMode(params, d) == d = 0

\* use_offDiag_pivot writes arr0 when "d == 0 or np.all(params[:d] == 0)"
WritesArr0(params, d) == d = 0 \/ \A i \in 1..d : params[i] = 0

\* use_offDiag_pivot, WRITE
OffDiagWrites(params, d, M, cutoff) ==
    LET pd == params[d + 1]
    IN  (IF WritesArr0(params, d)
         THEN {<<"arr0", tuple_setitem(fill_tuple_tail_Array0(zero_tuple(M), params, M),
                                       2 + d, pd + 1)>>}
         ELSE {})
        \cup (IF pd + 2 < cutoff
              THEN {<<"arr2", fill_tuple_tail_Array2(
                                  tuple_setitem(tuple_setitem(zero_tuple(M), 1, d), 2, pd),
                                  d, params, M)>>}
              ELSE {})
        \cup UNION {{Arr11Cell(0, d, i, pd, params[i + 1], params, M),
                     Arr11Cell(1, d, i, pd, params[i + 1], params, M)} :
                    i \in {i \in (d + 1)..(M - 1) : params[i + 1] + 1 < cutoff}}
        \cup {Arr11Cell(2, i, d, params[i + 1], pd, params, M) :
                    i \in {i \in 0..(d - 1) : params[i + 1] + 1 < cutoff}}


----------------------------------------------------------------------------
(* One call of fock_representation_compact(A, B, G0, M, cutoff), step by    *)
(* step.                                                                    *)

ABCIdle ==
    /\ objs = <<>>
    /\ last = [op |-> "init", x |-> 0, y |-> 0, arg |-> <<>>, pre |-> <<>>,
               out |-> "ok", res |-> NoRes, kept |-> <<>>]
    /\ pc = "sweep"
    /\ assoc = <<>>

InitSweep ==
    /\ ABCIdle
    /\ CallsIdle
    /\ swM \in 1..MaxModes
    /\ swCutoff \in 1..MaxCutoff
    /\ swPhase = "call"
    /\ swCount = 0 /\ swParts = <<>> /\ swPos = 0 /\ swD = -1
    /\ written = {} /\ badReads = {} /\ badIdx = {} /\ rewrites = {}
    /\ readCells = {} /\ writer = {}

\* fock_representation_compact: the four arrays are allocated, all zero
Allocate ==
    /\ swPhase = "call"
    /\ swPhase' = IF AllocRaises(swM, swCutoff) THEN "ValueError" ELSE "allocated"
    /\ UNCHANGED <<abcVars, callVars, swM, swCutoff, swCount, swParts, swPos, swD, written, badReads,
                   badIdx, rewrites, readCells, writer>>

\* the reads, then the writes, of one step
Access(reads, writes, tag) ==
    /\ readCells' = readCells \cup reads
    /\ badReads' = badReads \cup (reads \ written)
    /\ badIdx' = badIdx \cup {c \in reads \cup writes : ~InShape(c, swM, swCutoff)}
    /\ rewrites' = rewrites \cup (writes \cap written)
    /\ written' = written \cup {c \in writes : InShape(c, swM, swCutoff)}
    /\ writer' = writer \cup {<<c[2], tag>> : c \in {w \in writes : w[1] = "arr0"}}

\* arr0[zero_tuple] = G0, then the loops start at count = 0
InitG0 ==
    /\ swPhase = "allocated"
    /\ Access({}, {<<"arr0", zero_tuple(swM)>>}, "G0")
    /\ swPhase' = "loop"
    /\ swCount' = 0 /\ swParts' = get_partitions(swM, 0) /\ swPos' = 1 /\ swD' = -1
    /\ UNCHANGED <<abcVars, callVars, swM, swCutoff>>

NumCounts == (swCutoff - 1) * swM

InLoop == swPhase = "loop" /\ swCount < NumCounts

Params == swParts[swPos]

\* np.max(params)
MaxOf(params) ==
    CHOOSE m \in {params[k] : k \in DOMAIN params} : \A k \in DOMAIN params : params[k] <= m

\* the next params of "for params in get_partitions(M, count, ...)", or the
\* first of the next count
NextParams ==
    /\ IF swPos < Len(swParts)
       THEN swPos' = swPos + 1 /\ UNCHANGED <<swCount, swParts>>
       ELSE /\ swPos' = 1
            /\ swCount' = swCount + 1
            /\ swParts' = IF swCount + 1 < NumCounts THEN get_partitions(swM, swCount + 1)
                          ELSE <<>>
    /\ swD' = -1

\* after the off-diagonal step d: the next d, or the next params
NextD ==
    IF swD + 1 < swM
    THEN swD' = swD + 1 /\ UNCHANGED <<swCount, swParts, swPos>>
    ELSE NextParams

\* "if np.max(params) < cutoff" is false
SkipParams ==
    /\ InLoop /\ swD = -1
    /\ MaxOf(Params) >= swCutoff
    /\ NextParams
    /\ UNCHANGED <<abcVars, callVars, swM, swCutoff, swPhase, written, badReads, badIdx,
                   rewrites, readCells, writer>>

UseDiagPivot ==
    /\ InLoop /\ swD = -1
    /\ MaxOf(Params) < swCutoff
    /\ Access(DiagReads(Params, swM), DiagWrites(Params, swM, swCutoff), "diag")
    /\ swD' = 0
    /\ UNCHANGED <<abcVars, callVars, swM, swCutoff, swPhase, swCount, swParts, swPos>>

UseOffDiagPivot ==
    /\ InLoop /\ swD >= 0
    /\ Params[swD + 1] < swCutoff - 1
    /\ Access(OffDiagReads(Params, swD, swM),
              OffDiagWrites(Params, swD, swM, swCutoff), "offDiag")
    /\ NextD
    /\ UNCHANGED <<abcVars, callVars, swM, swCutoff, swPhase>>

\* "if params[d] < cutoff - 1" is false
SkipOffDiag ==
    /\ InLoop /\ swD >= 0
    /\ Params[swD + 1] >= swCutoff - 1
    /\ NextD
    /\ UNCHANGED <<abcVars, callVars, swM, swCutoff, swPhase, written, badReads, badIdx,
                   rewrites, readCells, writer>>

\* return arr0[0, 0]
Return ==
    /\ swPhase = "loop" /\ swCount = NumCounts
    /\ swPhase' = "done"
    /\ UNCHANGED <<abcVars, callVars, swM, swCutoff, swCount, swParts, swPos, swD, written, badReads,
                   badIdx, rewrites, readCells, writer>>

NextSweep ==
    \/ Allocate
    \/ InitG0
    \/ SkipParams
    \/ UseDiagPivot
    \/ UseOffDiagPivot
    \/ SkipOffDiag
    \/ Return

\* the recurrence sweep
SpecSweep == InitSweep /\ [][NextSweep]_vars

----------------------------------------------------------------------------
(* Properties of the sweep *)

\* the indices n in [0, cutoff)^M, as arr0 index tuples (0, 0, n_1, ..., n_M)
Arr0Indices == {<<0, 0>> \o n : n \in [1..swM -> 0..(swCutoff - 1)]}

\* C2: every cell of arr0, arr1, arr2 and arr11 that use_diag_pivot or
\* use_offDiag_pivot reads was written earlier in the same run.
C2_ReadsAreOfWrittenCells == badReads = {}

\* a finished run on two or more modes that has read from all four arrays
C2_Witness ==
    /\ swPhase = "done" /\ swM >= 2
    /\ \A arr \in Arrays : \E c \in readCells : c[1] = arr

\* C3: when the sweep ends every index of arr0[0, 0] has been written, the
\* all-zero index by the G0 initialisation and every other index by a
\* use_offDiag_pivot step.
C3_Arr0FullyWritten ==
    swPhase = "done" =>
        \A idx \in Arr0Indices :
            /\ <<"arr0", idx>> \in written
            /\ {w[2] : w \in {v \in writer : v[1] = idx}} =
                   IF idx = zero_tuple(swM) THEN {"G0"} ELSE {"offDiag"}

\* a finished run whose arr0 has cells that only a step with d > 0 writes
C3_Witness ==
    /\ swPhase = "done" /\ swM >= 2 /\ swCutoff >= 3
    /\ <<<<0, 0>> \o [n \in 1..swM |-> IF n = swM THEN swCutoff - 1 ELSE 0], "offDiag">> \in writer

\* C26: within one run of the sweep no cell of arr0, arr1, arr2 or arr11 is
\* written more than once, the zero cell of arr0 is written by the G0
\* initialisation only, and every index written lies inside the allocated
\* shape.
C26_CellsWrittenOnce ==
    /\ rewrites = {}
    /\ \A w \in writer : w[1] = zero_tuple(swM) => w[2] = "G0"
    /\ badIdx = {}

\* a finished run on two or more modes that has written to all four arrays
C26_Witness ==
    /\ swPhase = "done" /\ swM >= 2 /\ swCutoff >= 3
    /\ \A arr \in Arrays : \E c \in written : c[1] = arr

----------------------------------------------------------------------------
(* (X @ Y) @ Z and X @ (Y @ Z): objs = <<X, Y, Z>>, X marked xi against Y   *)
(* marked yj, Y marked yk against Z marked zl.                              *)

\* a one-variable triple with A = [[a]], b = [beta], c = 1
T1(a, beta) == Triple(<< <<<<a>>>> >>, << <<beta>> >>, <<COne>>)

\* a two-variable triple
T2 == Triple(<< << <<Zero, Q(2, 1)>>, <<Q(2, 1), Q(2, 1)>> >> >>, << <<One, Q(-1, 1)>> >>, <<COne>>)

AssocXs == {T1(Q(-1, 1), One), T1(Q(1, 2), Q(1, 3)), DgateRep(<<Q(1, 2)>>, <<Q(-1, 2)>>)}
AssocYs == {T2, G3}
AssocZs == {VacuumRep(1), T1(One, Q(1, 2))}

Elems(t) == {t[n] : n \in DOMAIN t}

\* where the variables idx of an operand are in a product that has dropped
\* the variables removed of that operand and lead of the operand before it
Shifted(idx, removed, lead) ==
    Tab(LAMBDA n : lead + idx[n] - Cardinality({m \in DOMAIN removed : removed[m] < idx[n]}),
        Len(idx))

NotRun == [out |-> "none", res |-> NoRes]

\* X[xi] @ Y[yi] as an outcome
Outcome(X, xi, Y, yi) ==
    IF MatMulRaises(X, xi, Y, yi) THEN [out |-> "LinAlgError", res |-> NoRes]
    ELSE [out |-> "ok", res |-> MatMulOp(X, xi, Y, yi)]

InitAssoc ==
    /\ objs \in {<<Obj(X), Obj(Y), Obj(Z)>> : X \in AssocXs, Y \in AssocYs, Z \in AssocZs}
    /\ assoc \in {[xi |-> xi, yj |-> yj, yk |-> yk, zl |-> zl,
                   W |-> NotRun, L |-> NotRun, V |-> NotRun, R |-> NotRun] :
                     xi \in IdxTuples(Dim(Data(objs[1]))),
                     yj \in IdxTuples(Dim(Data(objs[2]))),
                     yk \in IdxTuples(Dim(Data(objs[2]))),
                     zl \in IdxTuples(Dim(Data(objs[3])))}
    /\ Len(assoc.xi) = Len(assoc.yj)
    /\ Len(assoc.yk) = Len(assoc.zl)
    /\ Elems(assoc.yj) \cap Elems(assoc.yk) = {}
    /\ last = [op |-> "init", x |-> 0, y |-> 0, arg |-> <<>>, pre |-> <<>>,
               out |-> "ok", res |-> NoRes, kept |-> <<>>]
    /\ pc = "assoc"
    /\ SweepIdle
    /\ CallsIdle

\* one contraction of a grouping: both operands are marked, then contracted
Contract(slot, x, xi, y, yi, X, Y) ==
    LET o == Outcome(X, xi, Y, yi)
        marked == IF y = 0 THEN GetItemObjs(objs, x, xi)
                  ELSE IF x = 0 THEN GetItemObjs(objs, y, yi)
                  ELSE GetItemObjs(GetItemObjs(objs, x, xi), y, yi)
    IN  /\ objs' = MatMulObjs(marked, x, y)
        /\ assoc' = [assoc EXCEPT ![slot] = o]
        /\ last' = Log("matmul", x, y, <<xi, yi>>, o.out, o.res, <<>>)
        /\ UNCHANGED <<pc, sweepVars, callVars>>

\* an exception of the inner contraction leaves the grouping without a value
Propagate(slot, inner) ==
    /\ assoc' = [assoc EXCEPT ![slot] = inner]
    /\ last' = Log("matmul", 0, 0, <<>>, inner.out, NoRes, <<>>)
    /\ UNCHANGED <<objs, pc, sweepVars, callVars>>

\* W = X[xi] @ Y[yj]
ContractXY ==
    /\ pc = "assoc" /\ assoc.W.out = "none"
    /\ Contract("W", 1, assoc.xi, 2, assoc.yj, Data(objs[1]), Data(objs[2]))

\* L = W[wk] @ Z[zl], where wk are the variables yk of Y as they are in W
ContractWZ ==
    /\ pc = "assoc" /\ assoc.W.out # "none" /\ assoc.L.out = "none"
    /\ IF assoc.W.out = "ok"
       THEN Contract("L", 0, Shifted(assoc.yk, assoc.yj,
                                     Dim(Data(objs[1])) - Len(assoc.xi)),
                     3, assoc.zl, assoc.W.res, Data(objs[3]))
       ELSE Propagate("L", assoc.W)

\* V = Y[yk] @ Z[zl]
ContractYZ ==
    /\ pc = "assoc" /\ assoc.V.out = "none"
    /\ Contract("V", 2, assoc.yk, 3, assoc.zl, Data(objs[2]), Data(objs[3]))

\* R = X[xi] @ V[vj], where vj are the variables yj of Y as they are in V
ContractXV ==
    /\ pc = "assoc" /\ assoc.V.out # "none" /\ assoc.R.out = "none"
    /\ IF assoc.V.out = "ok"
       THEN Contract("R", 1, assoc.xi, 0, Shifted(assoc.yj, assoc.yk, 0),
                     Data(objs[1]), assoc.V.res)
       ELSE Propagate("R", assoc.V)

NextAssoc ==
    \/ ContractXY
    \/ ContractWZ
    \/ ContractYZ
    \/ ContractXV

\* the two groupings of a contraction of three triples
SpecAssoc == InitAssoc /\ [][NextAssoc]_vars

----------------------------------------------------------------------------
(* Properties of the two groupings *)

\* |re(x - y)| <= 1e-6 and |im(x - y)| <= 1e-6
NClose(x, y) ==
    LET d == NSub(x, y)
    IN  Abs(d[1]) * 1000000 <= d[3] /\ Abs(d[2]) * 1000000 <= d[3]

\* the product of the radicands of a coefficient
RECURSIVE RadProduct(_)
RadProduct(rad) ==
    IF rad = EmptyBag THEN One
    ELSE LET r == CHOOSE r \in BagToSet(rad) : TRUE
         IN  NMul(r, RadProduct(rad (-) SetToBag({r})))

\* k * prod 1/sqrt(r) without the moduli of the radicands: 1/sqrt(r) is
\* -1j/sqrt(|r|) for r < 0
RECURSIVE Phase(_, _)
Phase(k, rad) ==
    IF rad = EmptyBag THEN k
    ELSE LET r == CHOOSE r \in BagToSet(rad) : TRUE
         IN  Phase(IF r[1] < 0 THEN NMul(k, NNeg(ImagUnit)) ELSE k, rad (-) SetToBag({r}))

\* |r| of a real number r
Abs2(r) == IF r[1] < 0 THEN NNeg(r) ELSE r

RealRadicands(c) == \A r \in BagToSet(c.rad) : NIsReal(r)

\* two coefficients with real radicands have the same value
CSameValue(c1, c2) ==
    LET u1 == Phase(c1.k, c1.rad)
        u2 == Phase(c2.k, c2.rad)
        P1 == RadProduct(c1.rad)
        P2 == RadProduct(c2.rad)
        uu == NMul(u1, NConj(u2))
    IN  /\ c1.e = c2.e
        /\ NMul(NMul(u1, u1), Abs2(P2)) = NMul(NMul(u2, u2), Abs2(P1))
        /\ (u1 = Zero /\ u2 = Zero) \/ (uu[2] = 0 /\ uu[1] > 0)

\* two triples agree in shape and entry by entry
TripleClose(S, T) ==
    /\ BatchSize(S) = BatchSize(T)
    /\ Dim(S) = Dim(T)
    /\ \A t \in 1..BatchSize(S) :
        /\ \A r, s \in 1..Dim(S) : NClose(S.A[t][r][s], T.A[t][r][s])
        /\ \A r \in 1..Dim(S) : NClose(S.b[t][r], T.b[t][r])
        /\ CSameValue(S.c[t], T.c[t])

BothRun == assoc.L.out # "none" /\ assoc.R.out # "none"

\* C6: contraction is associative, (X @ Y) @ Z equals X @ (Y @ Z) in A, b and
\* c within 1e-6 for three triples with compatible marked indices.
C6_ContractionAssociative ==
    BothRun =>
        /\ assoc.L.out = assoc.R.out
        /\ assoc.L.out = "ok" => TripleClose(assoc.L.res, assoc.R.res)

\* with one pair per contraction and no singular M, A and b of the two
\* groupings agree
C6_SinglePairsAgreeInAb ==
    (BothRun /\ Len(assoc.xi) = 1 /\ Len(assoc.yk) = 1
        /\ assoc.L.out = "ok" /\ assoc.R.out = "ok") =>
        /\ assoc.L.res.A = assoc.R.res.A
        /\ assoc.L.res.b = assoc.R.res.b

----------------------------------------------------------------------------
(* Properties of a contraction with a singular M *)

\* the last operation was X[xi] @ Y[yi] on marked operands, and the M of its
\* n-th pass has determinant 0 in some batch entry
SingularPass(n) ==
    LET X == last.pre[last.x]
        G == AndOp(X, last.pre[last.y])
        i == AdjI(last.arg[1], n)
        j == AdjJ(last.arg[2], n, Dim(X))
    IN  \E t \in 1..BatchSize(G) : Det2(CouplingM(G.A[t], i, j)) = Zero

MatMulOnMarked == last.op = "matmul" /\ last.out # "AttributeError"

C14_EveryCutoffAccepted ==
    /\ swPhase # "ValueError"
    /\ swPhase = "done" =>
           SubSeq(Shape("arr0", swM, swCutoff), 3, swM + 2) = Tab(LAMBDA n : swCutoff, swM)

----------------------------------------------------------------------------
(* Calls of fock_representation_compact in one process. A call is three     *)
(* steps: the tables (BINOM, PARTITIONS), the allocation of the four        *)
(* arrays, and the compiled sweep, which runs as one step.                  *)

\* most calls made in one process
MaxCalls == 2

\* BINOM = np.zeros((60, 60)): len_lvl may index 0..59 in either dimension
BinomSize == 60

\* a cutoff for which two modes need BINOM[60, 59]
LargeCutoff == 31

\* the (M, cutoff) of the calls
CallConfigs == {<<1, 1>>, <<1, 2>>, <<2, 2>>, <<2, 3>>, <<2, LargeCutoff>>}

\* the arrays a call allocates, in allocation order
AllocNames == <<"arr0", "arr2", "arr11", "arr1">>
GradNames ==
    <<"arr0_dA", "arr2_dA", "arr11_dA", "arr1_dA", "arr0_dB", "arr2_dB", "arr11_dB", "arr1_dB">>

\* an allocator that hands out one process-wide set of buffers to every call
NewArrays_Shared(hp, names) == [n \in 1..Len(names) |-> n]

\* np.zeros: every array is a new object
NewArrays(hp, names) == [n \in 1..Len(names) |-> hp + n]

\* the layers count of one sweep
Counts(M, cutoff) == 0..((cutoff - 1) * M - 1)

\* get_partitions(M, N) of a layer indexes BINOM at row M - 1 + N (len_lvl),
\* unless M == 1, which returns before len_lvl is called
BinomOutside(M, cutoff) ==
    M >= 2 /\ \E N \in Counts(M, cutoff) : M - 1 + N >= BinomSize

\* the keys in PARTITIONS after get_partitions(M, N, PARTITIONS, BINOM)
RECURSIVE KeysAfter(_, _, _)
RECURSIVE KeysAfterLoop(_, _, _, _)
KeysAfterLoop(M, N, n, keys) ==
    IF n > N THEN keys
    ELSE KeysAfterLoop(M, N, n + 1, KeysAfter(M - 1, N - n, keys))

KeysAfter(M, N, keys) ==
    IF <<M, N>> \in keys THEN keys
    ELSE IF M = 1 THEN keys
    ELSE KeysAfterLoop(M, N, 0, keys) \cup {<<M, N>>}

\* the keys in PARTITIONS after the layers 0 .. count of the sweep
RECURSIVE KeysAfterCounts(_, _, _)
KeysAfterCounts(M, count, keys) ==
    IF count < 0 THEN keys
    ELSE KeysAfter(M, count, KeysAfterCounts(M, count - 1, keys))

\* the params on which the sweep calls use_diag_pivot
Pivots(M, cutoff) ==
    UNION {{p \in Elems(get_partitions(M, count)) : MaxOf(p) < cutoff} :
              count \in Counts(M, cutoff)}

\* the cells a whole sweep writes and reads
RunWrites(M, cutoff) ==
    {<<"arr0", zero_tuple(M)>>}
    \cup UNION {DiagWrites(p, M, cutoff) : p \in Pivots(M, cutoff)}
    \cup UNION {UNION {OffDiagWrites(p, d, M, cutoff) :
                          d \in {d \in 0..(M - 1) : p[d + 1] < cutoff - 1}} :
                   p \in Pivots(M, cutoff)}

RunReads(M, cutoff) ==
    UNION {DiagReads(p, M) : p \in Pivots(M, cutoff)}
    \cup UNION {UNION {OffDiagReads(p, d, M) :
                          d \in {d \in 0..(M - 1) : p[d + 1] < cutoff - 1}} :
                   p \in Pivots(M, cutoff)}

\* the objects behind a set of array names: each of arr0, arr2, arr11, arr1
\* is accessed together with its _dA and _dB arrays at the same index
ObjectsOf(names, arrs, grads) ==
    {arrs[n] : n \in {n \in 1..4 : AllocNames[n] \in names}}
    \cup {grads[n] : n \in {n \in 1..4 : AllocNames[n] \in names}}
    \cup {grads[n + 4] : n \in {n \in 1..4 : AllocNames[n] \in names}}

Frame(M, cutoff, before) ==
    [M |-> M, cutoff |-> cutoff, phase |-> "tables", PARTITIONS |-> {},
     storedBefore |-> before, arrs |-> <<>>, grads |-> <<>>,
     writes |-> {}, reads |-> {}, ret |-> {}, outside |-> FALSE]

InitCalls ==
    /\ objs = <<>>
    /\ last = [op |-> "init", x |-> 0, y |-> 0, arg |-> <<>>, pre |-> <<>>,
               out |-> "ok", res |-> NoRes, kept |-> <<>>]
    /\ pc = "calls"
    /\ assoc = <<>>
    /\ SweepIdle
    /\ CallsIdle

\* fock_representation_compact is entered: BINOM is filled and PARTITIONS is
\* a new empty Dict. storedBefore is what the calls that have returned stored.
Call(M, cutoff) ==
    /\ pc = "calls"
    /\ Len(frames) < MaxCalls
    /\ frames' = Append(frames,
                    Frame(M, cutoff,
                          UNION {frames[j].PARTITIONS :
                                    j \in {j \in DOMAIN frames : frames[j].phase = "returned"}}))
    /\ UNCHANGED <<abcVars, sweepVars, heap>>

\* arr0, arr2, arr11, arr1 = np.zeros(...)
AllocateArrays(k) ==
    /\ pc = "calls"
    /\ frames[k].phase = "tables"
    /\ IF AllocRaises(frames[k].M, frames[k].cutoff)
       THEN /\ frames' = [frames EXCEPT ![k].phase = "ValueError"]
            /\ UNCHANGED heap
       ELSE /\ frames' = [frames EXCEPT ![k].phase = "allocated",
                                        ![k].arrs = NewArrays(heap, AllocNames)]
            /\ heap' = heap + Len(AllocNames)
    /\ UNCHANGED <<abcVars, sweepVars>>

\* fock_representation_compact_NUMBA on a request that stays inside BINOM
RunSweep(k) ==
    LET f == frames[k]
        grads == NewArrays(heap, GradNames)
        wr == {c[1] : c \in RunWrites(f.M, f.cutoff)}
        rd == {c[1] : c \in RunReads(f.M, f.cutoff)}
    IN  /\ pc = "calls"
        /\ f.phase = "allocated"
        /\ ~BinomOutside(f.M, f.cutoff)
        /\ frames' = [frames EXCEPT
                ![k].phase = "returned",
                ![k].grads = grads,
                ![k].PARTITIONS = KeysAfterCounts(f.M, (f.cutoff - 1) * f.M - 1, {}),
                ![k].writes = ObjectsOf(wr, f.arrs, grads),
                ![k].reads = ObjectsOf(rd, f.arrs, grads),
                ![k].ret = ObjectsOf({"arr0"}, f.arrs, grads)]
        /\ heap' = heap + Len(GradNames)
        /\ UNCHANGED <<abcVars, sweepVars>>

\* fock_representation_compact_NUMBA on a request that needs a row of BINOM
\* past the last: compiled code indexes the array unchecked, so the value of
\* len_lvl, and with it the outcome of the call, is undefined
RunSweepOutside(k) ==
    LET f == frames[k]
        grads == NewArrays(heap, GradNames)
    IN  /\ pc = "calls"
        /\ f.phase = "allocated"
        /\ BinomOutside(f.M, f.cutoff)
        /\ \E outcome \in {"returned", "error", "crashed"} :
              frames' = [frames EXCEPT
                  ![k].phase = outcome,
                  ![k].outside = TRUE,
                  ![k].grads = grads,
                  ![k].writes = ObjectsOf({"arr0", "arr1", "arr2"}, f.arrs, grads),
                  ![k].reads = ObjectsOf({"arr0", "arr1", "arr2"}, f.arrs, grads),
                  ![k].ret = IF outcome = "returned" THEN ObjectsOf({"arr0"}, f.arrs, grads)
                             ELSE {}]
        /\ heap' = heap + Len(GradNames)
        /\ UNCHANGED <<abcVars, sweepVars>>

NextCalls ==
    \/ \E c \in CallConfigs : Call(c[1], c[2])
    \/ \E k \in DOMAIN frames : AllocateArrays(k)
    \/ \E k \in DOMAIN frames : RunSweep(k)
    \/ \E k \in DOMAIN frames : RunSweepOutside(k)

\* calls of the recurrence engine, in sequence or interleaved
SpecCalls == InitCalls /\ [][NextCalls]_vars

----------------------------------------------------------------------------
(* Properties of calls *)

\* C12: a table that get_partitions stored under a key during one call is in
\* the cache at the start of every later call of the process.
C12_CacheOutlivesCall ==
    \A k \in DOMAIN frames :
        frames[k].phase \in {"tables", "allocated"} =>
            frames[k].storedBefore \subseteq frames[k].PARTITIONS

\* C13: every call allocates its own arrays; for every interleaving of two
\* calls no write of one call lands in an array the other reads or returns.
C13_ArraysAreOwnedByOneCall ==
    \A j, k \in DOMAIN frames :
        j # k =>
            /\ Elems(frames[j].arrs) \cap Elems(frames[k].arrs) = {}
            /\ Elems(frames[j].grads) \cap Elems(frames[k].grads) = {}
            /\ frames[j].writes \cap (frames[k].reads \cup frames[k].ret) = {}

\* two calls that were both in progress at once have both returned, each
\* having written and read
C13_Witness ==
    /\ Len(frames) >= 2
    /\ frames[1].phase = "returned" /\ frames[2].phase = "returned"
    /\ frames[2].arrs[1] < frames[1].grads[1]
    /\ frames[1].writes # {} /\ frames[2].reads # {}

\* C15: a request that needs a binomial coefficient outside the 60x60 table
\* raises an error at that point: the table is never indexed outside and no
\* tensor is returned.
C15_OutsideBinomRaises ==
    \A k \in DOMAIN frames :
        (BinomOutside(frames[k].M, frames[k].cutoff)
            /\ frames[k].phase \notin {"tables", "allocated"}) =>
            /\ ~frames[k].outside
            /\ frames[k].phase \in {"error", "ValueError"}
            /\ frames[k].ret = {}

----------------------------------------------------------------------------
(* The representations that the lab_dev transformation constructors build  *)

\* most transformations constructed
MaxObjs == 2

\* math.Xmat(M): the 2M x 2M matrix [[0, I], [I, 0]]
Xmat(M) ==
    Tab(LAMBDA r : Tab(LAMBDA c : IF r - c = M \/ c - r = M THEN One ELSE Zero, 2 * M), 2 * M)

\* math.zeros((n,))
zeros(n) == Tab(LAMBDA r : Zero, n)

\* Unitary.__init__ with representation = None
UnitaryRep(M) == Triple(<<Xmat(M)>>, <<zeros(M)>>, <<COne>>)

\* Channel.__init__ with representation = None
ChannelRep(M) == Triple(<<block_diag(Xmat(M), Xmat(M))>>, <<zeros(2 * M)>>, <<COne>>)

InitCtor ==
    /\ objs = <<>>
    /\ last = [op |-> "init", x |-> 0, y |-> 0, arg |-> <<>>, pre |-> <<>>,
               out |-> "ok", res |-> NoRes, kept |-> <<>>]
    /\ pc = "ctor"
    /\ assoc = <<>>
    /\ SweepIdle
    /\ CallsIdle

Construct(op, M, rep) ==
    /\ pc = "ctor"
    /\ Len(objs) < MaxObjs
    /\ objs' = Append(objs, Obj(rep))
    /\ last' = Log(op, Len(objs) + 1, 0, M, "ok", rep, <<>>)
    /\ UNCHANGED <<pc, assoc, sweepVars, callVars>>

\* Unitary(name, None, modes) with M modes
NewUnitary(M) == Construct("Unitary", M, UnitaryRep(M))

\* Channel(name, None, modes) with M modes
NewChannel(M) == Construct("Channel", M, ChannelRep(M))

\* Dgate(x, y, modes=range(M)).representation, one x and y for all modes
NewDgate(M, xy) ==
    Construct("Dgate", M, DgateRep(Tab(LAMBDA n : xy[1], M), Tab(LAMBDA n : xy[2], M)))

NextCtor ==
    \/ \E M \in 1..MaxModes : NewUnitary(M)
    \/ \E M \in 1..MaxModes : NewChannel(M)
    \/ \E M \in 1..MaxModes : \E xy \in XYs : NewDgate(M, xy)

\* construction of transformations
SpecCtor == InitCtor /\ [][NextCtor]_vars

\* C16: every triple built by a lab_dev transformation constructor has
\* A.shape[-1] == b.shape[-1]: Unitary's and Channel's default identity and
\* Dgate's representation, for every M >= 1.
C16_ConstructedShapesAgree ==
    \A n \in DOMAIN objs :
        \A t \in 1..BatchSize(Data(objs[n])) :
            /\ Len(objs[n].A[t]) = Len(objs[n].b[t])
            /\ \A r \in 1..Len(objs[n].A[t]) : Len(objs[n].A[t][r]) = Len(objs[n].b[t])

\* the part of C16 about Dgate, which the code satisfies
C16_DgateShapesAgree ==
    last.op = "Dgate" =>
        /\ Len(last.res.A[1]) = 2 * last.arg
        /\ \A r \in 1..Len(last.res.A[1]) : Len(last.res.A[1][r]) = Len(last.res.b[1])

----------------------------------------------------------------------------
(* States and their reductions: State.get_modes (lab/abstract/state.py),   *)
(* the partial trace of a density matrix (physics/fock.py) and the gather  *)
(* operations and general_dyne of plugins/gaussianplugin.py.               *)
(*                                                                         *)
(* A density matrix is modelled by its axes: axis m is the ket index and   *)
(* axis m + N the bra index of mode m, each with the cutoff of its mode.   *)
(* A covariance matrix and a means vector are in xxpp order: index m is    *)
(* the x and index m + N the p quadrature of mode m. Where only the place  *)
(* of an entry matters the entry is its own origin: <<r, c>> in a          *)
(* covariance matrix, r in a means vector.                                 *)

\* [m for m in range(N) if m not in list]
ModesNotIn(N, list) == SelectSeq(Range(0, N), LAMBDA m : \A k \in DOMAIN list : list[k] # m)

\* [i + N for i in list]
Plus(list, N) == Tab(LAMBDA n : list[n] + N, Len(list))

RECURSIVE DimProd(_)
\* np.prod of the dimensions of a sequence of axes
DimProd(axes) == IF axes = <<>> THEN 1 ELSE Head(axes).dim * DimProd(Tail(axes))

\* fock.trace(dm, keep): transpose to (keep kets, keep bras, traced kets,
\* traced bras), merge the traced kets and the traced bras into two axes of
\* size d, take the trace over these two. shape[-0:] is the whole shape.
trace(dm, keep) ==
    LET N == Len(dm) \div 2
        tr == ModesNotIn(N, keep)
        keep_idx == keep \o Plus(keep, N)
        trace_idx == tr \o Plus(tr, N)
        perm == keep_idx \o trace_idx
        IsPerm == /\ Len(perm) = Len(dm)
                  /\ \A a \in 0..(Len(dm) - 1) : \E n \in DOMAIN perm : perm[n] = a
        transposed == Tab(LAMBDA n : dm[perm[n] + 1], Len(perm))
        last_axes == IF Len(tr) = 0 THEN transposed
                     ELSE SubSeq(transposed, Len(transposed) - Len(tr) + 1, Len(transposed))
        d == DimProd(last_axes)
        kept == SubSeq(transposed, 1, 2 * Len(keep))
    IN  IF ~IsPerm \/ DimProd(kept) * d * d # DimProd(dm)
        THEN [out |-> "ValueError"]
        ELSE [out |-> "ok", dm |-> kept]

\* backend gather on one axis raises for an index outside the axis
GatherRaises(len, idx) == \E n \in DOMAIN idx : idx[n] \notin 0..(len - 1)

\* gather(gather(cov, cols, axis=1), rows, axis=0)
Gather2(cov, rows, cols) ==
    Tab(LAMBDA r : Tab(LAMBDA c : cov[rows[r] + 1][cols[c] + 1], Len(cols)), Len(rows))

\* gather(means, idx)
Gather1(means, idx) == Tab(LAMBDA r : means[idx[r] + 1], Len(idx))

\* partition_cov(cov, Amodes): the blocks A, B and AB
partition_cov(cov, Amodes) ==
    LET N == Len(cov) \div 2
        notA == ModesNotIn(N, Amodes)
        Bindices == notA \o Plus(notA, N)
        Aindices == Amodes \o Plus(Amodes, N)
    IN  IF GatherRaises(2 * N, Aindices) \/ GatherRaises(2 * N, Bindices)
        THEN [out |-> "IndexError"]
        ELSE [A |-> Gather2(cov, Aindices, Aindices), B |-> Gather2(cov, Bindices, Bindices),
              AB |-> Gather2(cov, Aindices, Bindices), out |-> "ok"]

\* partition_means(means, Amodes): the means of A and of B
partition_means(means, Amodes) ==
    LET N == Len(means) \div 2
        notA == ModesNotIn(N, Amodes)
        Bindices == notA \o Plus(notA, N)
        Aindices == Amodes \o Plus(Amodes, N)
    IN  IF GatherRaises(2 * N, Aindices) \/ GatherRaises(2 * N, Bindices)
        THEN [out |-> "IndexError"]
        ELSE [out |-> "ok", a |-> Gather1(means, Aindices), b |-> Gather1(means, Bindices)]

\* GaussianPlugin.trace(cov, means, Bmodes). The list comprehension drops
\* from range(N) what is in Bmodes; what Bmodes holds besides is never used.
GaussianTrace(cov, means, Bmodes) ==
    LET N == Len(cov) \div 2
        Aindices == ModesNotIn(N, Bmodes)
    IN  IF GatherRaises(2 * N, Aindices)
        THEN [out |-> "IndexError"]
        ELSE [out |-> "ok", cov |-> Gather2(cov, Aindices, Aindices),
              means |-> Gather1(means, Aindices)]

\* State(cov=cov, means=means, modes=modes) and State(dm=dm, modes=modes)
State(is_gaussian, modes, cov, means, dm) ==
    [dm |-> dm, cov |-> cov, means |-> means, is_gaussian |-> is_gaussian,
     modes |-> modes, num_modes |-> Len(modes)]

\* State.get_modes(item) for item a list of modes
get_modes(self, item) ==
    IF self.is_gaussian
    THEN LET pc_ == partition_cov(self.cov, item)
             pm == partition_means(self.means, item)
         IN  IF pc_.out # "ok" THEN [out |-> pc_.out]
             ELSE [out |-> "ok", state |-> State(TRUE, item, pc_.A, pm.a, <<>>)]
    ELSE LET t == trace(self.dm, ModesNotIn(self.num_modes, item))
         IN  IF t.out # "ok" THEN [out |-> t.out]
             ELSE [out |-> "ok", state |-> State(FALSE, item, <<>>, <<>>, t.dm)]

\* backend matmul, matvec, transpose, + and - of matrices and vectors
MatMulM(A, B) ==
    Tab(LAMBDA r : Tab(LAMBDA c : NSum(Tab(LAMBDA k : NMul(A[r][k], B[k][c]), Len(B))),
                       Len(B[1])), Len(A))
MatVecM(A, v) == Tab(LAMBDA r : NSum(Tab(LAMBDA k : NMul(A[r][k], v[k]), Len(v))), Len(A))
TransposeM(A) == Tab(LAMBDA r : Tab(LAMBDA c : A[c][r], Len(A)), Len(A[1]))
VAdd(u, v) == Tab(LAMBDA n : NAdd(u[n], v[n]), Len(u))
VSub(u, v) == Tab(LAMBDA n : NSub(u[n], v[n]), Len(u))
MAddM(A, B) == Tab(LAMBDA r : VAdd(A[r], B[r]), Len(A))
MSubM(A, B) == Tab(LAMBDA r : VSub(A[r], B[r]), Len(A))

\* the density exp(e) / (pi^nB * hbar^-nB * sqrt(det)), kept in closed form
Density(e, nB, hbar, det) == [e |-> e, rad |-> det, hbar |-> <<hbar, nB>>, pi |-> nB]

\* general_dyne(cov, means, proj_cov, proj_means, modes, hbar) for a
\* two-dimensional proj_cov. In the exponent, * binds tighter than -: the
\* summed vector is matvec(inv, proj_means - b) * proj_means - b.
general_dyne(cov, means, proj_cov, proj_means, modes, hbar) ==
    LET N == Len(cov) \div 2
        nB == Len(proj_cov) \div 2
        Amodes == ModesNotIn(N, modes)
        P == partition_cov(cov, Amodes)
        m == partition_means(means, Amodes)
        S == MAddM(P.B, proj_cov)
        inv == Inv2(S)
        ABinv == MatMulM(P.AB, inv)
        new_cov == MSubM(P.A, MatMulM(ABinv, TransposeM(P.AB)))
        r == VSub(proj_means, m.b)
        new_means == VAdd(m.a, MatVecM(ABinv, r))
        w == MatVecM(inv, r)
        summed == Tab(LAMBDA n : NSub(NMul(w[n], proj_means[n]), m.b[n]), Len(w))
    IN  IF Det2(S) = Zero
        THEN [out |-> "LinAlgError"]
        ELSE [out |-> "ok", cov |-> new_cov, means |-> new_means,
              prob |-> Density(NNeg(NSum(summed)), nB, hbar, Det2(S))]

----------------------------------------------------------------------------
(* The states the operations are applied to *)

\* a Gaussian state on N modes whose entries are their own origin
GaussianState(N) ==
    State(TRUE, Range(0, N),
          Tab(LAMBDA r : Tab(LAMBDA c : <<r - 1, c - 1>>, 2 * N), 2 * N),
          Tab(LAMBDA r : r - 1, 2 * N), <<>>)

\* self.dm(self.cutoffs) of a state in Fock representation; mode m has cutoff m + 2
FockState(N) ==
    State(FALSE, Range(0, N), <<>>, <<>>,
          Tab(LAMBDA n : [dim |-> n + 1, side |-> "ket", mode |-> n - 1], N)
          \o Tab(LAMBDA n : [dim |-> n + 1, side |-> "bra", mode |-> n - 1], N))

\* a matrix and a vector of integers as exact numbers
IntM(A) == Tab(LAMBDA r : Tab(LAMBDA c : Q(A[r][c], 1), Len(A[r])), Len(A))
IntV(v) == Tab(LAMBDA n : Q(v[n], 1), Len(v))

\* two-mode covariance matrices (hbar = 2): the vacuum and three times a
\* two-mode squeezed vacuum with cosh 2r = 5/3, sinh 2r = 4/3
Covs ==
    {IntM(<< <<1, 0, 0, 0>>, <<0, 1, 0, 0>>, <<0, 0, 1, 0>>, <<0, 0, 0, 1>> >>),
     IntM(<< <<5, 4, 0, 0>>, <<4, 5, 0, 0>>, <<0, 0, 5, -4>>, <<0, 0, -4, 5>> >>)}
Means == {IntV(<<0, 0, 0, 0>>), IntV(<<1, -1, 2, 0>>), IntV(<<0, 3, -2, 1>>)}
\* one-mode states projected onto: a coherent and a squeezed state
ProjCovs == {IntM(<< <<1, 0>>, <<0, 1>> >>), IntM(<< <<2, 0>>, <<0, 3>> >>)}
ProjMeans == {IntV(<<0, 0>>), IntV(<<1, 0>>), IntV(<<-1, 2>>)}
Hbar == 2

\* the lists of distinct elements of S
ModeLists(S) ==
    UNION {{l \in [1..k -> S] : \A p, q \in 1..k : p # q => l[p] # l[q]} :
              k \in 0..Cardinality(S)}

\* the states alive: a Gaussian and a Fock state on 1..MaxModes modes each,
\* and last a two-mode Gaussian state with numbers for entries
InitStates ==
    /\ objs \in {Tab(LAMBDA n : IF n <= MaxModes THEN GaussianState(n)
                              ELSE FockState(n - MaxModes), 2 * MaxModes)
                 \o <<State(TRUE, <<0, 1>>, cov, means, <<>>)>> :
                     cov \in Covs, means \in Means}
    /\ last = [x |-> 0, op |-> "init", arg |-> <<>>, out |-> "ok", res |-> <<>>]
    /\ pc = "states"
    /\ assoc = <<>>
    /\ SweepIdle
    /\ CallsIdle

\* one call of op on the state objs[x] with argument arg, and what it
\* returned or raised; the state itself is left as it was
Apply(op, x, arg, r) ==
    /\ pc = "states"
    /\ last' = [x |-> x, op |-> op, arg |-> arg, out |-> r.out, res |-> r]
    /\ UNCHANGED <<objs, pc, assoc, sweepVars, callVars>>

\* state.get_modes(item); item may name a mode the state does not have
GetModes ==
    \E x \in 1..(2 * MaxModes) : \E item \in ModeLists(0..objs[x].num_modes) :
        Apply("get_modes", x, item, get_modes(objs[x], item))

\* gaussian.trace(cov, means, Bmodes); Bmodes may name a mode the state does not have
Trace ==
    \E x \in 1..MaxModes : \E Bmodes \in ModeLists(0..objs[x].num_modes) :
        Apply("trace", x, Bmodes, GaussianTrace(objs[x].cov, objs[x].means, Bmodes))

\* gaussian.partition_cov(cov, Amodes)
PartitionCov ==
    \E x \in 1..MaxModes : \E Amodes \in ModeLists(0..objs[x].num_modes) :
        Apply("partition_cov", x, Amodes, partition_cov(objs[x].cov, Amodes))

\* gaussian.partition_means(means, Amodes)
PartitionMeans ==
    \E x \in 1..MaxModes : \E Amodes \in ModeLists(0..objs[x].num_modes) :
        Apply("partition_means", x, Amodes, partition_means(objs[x].means, Amodes))

\* gaussian.general_dyne(cov, means, proj_cov, proj_means, [mode], hbar) on
\* the state with numbers for entries
GeneralDyne ==
    \E proj_cov \in ProjCovs : \E proj_means \in ProjMeans : \E mode \in 0..1 :
        LET x == Len(objs)
        IN  Apply("general_dyne", x,
                  [modes |-> <<mode>>, proj_cov |-> proj_cov, proj_means |-> proj_means],
                  general_dyne(objs[x].cov, objs[x].means, proj_cov, proj_means,
                               <<mode>>, Hbar))

NextStates ==
    \/ GetModes
    \/ Trace
    \/ PartitionCov
    \/ PartitionMeans
    \/ GeneralDyne

\* reductions and measurements of states
SpecStates == InitStates /\ [][NextStates]_vars

\* C17: state.get_modes(item), for item a list of one or more modes of the
\* state, returns a State whose modes equal item and whose data are those of
\* the modes in item and of no others: of a density matrix the ket and the
\* bra axis of each mode in item, of a covariance matrix and a means vector
\* the x and the p entries of each mode in item.
C17_GetModesKeepsItem ==
    (/\ last.op = "get_modes"
     /\ last.arg # <<>>
     /\ \A n \in DOMAIN last.arg : last.arg[n] < objs[last.x].num_modes) =>
        /\ last.out = "ok"
        /\ last.res.state.modes = last.arg
        /\ LET N == objs[last.x].num_modes
               item == {last.arg[n] : n \in DOMAIN last.arg}
               r == last.res.state
           IN  IF objs[last.x].is_gaussian
               THEN /\ {r.means[n] : n \in DOMAIN r.means} = item \cup {m + N : m \in item}
                    /\ Len(r.cov) = 2 * Len(last.arg)
               ELSE {<<r.dm[n].side, r.dm[n].mode>> : n \in DOMAIN r.dm}
                        = {"ket", "bra"} \X item

\* C18: trace(cov, means, Bmodes) on an N-mode state, Bmodes a list of modes
\* of the state, returns a covariance matrix that is square of size
\* 2(N - |Bmodes|) and a means vector of length 2(N - |Bmodes|), with the x and
\* the p entry of every kept mode.
C18_TraceKeepsXAndP ==
    (/\ last.op = "trace"
     /\ \A n \in DOMAIN last.arg : last.arg[n] < objs[last.x].num_modes) =>
        LET N == objs[last.x].num_modes
            size == 2 * (N - Len(last.arg))
            kept == (0..(N - 1)) \ {last.arg[n] : n \in DOMAIN last.arg}
        IN  /\ last.out = "ok"
            /\ Len(last.res.cov) = size
            /\ \A r \in DOMAIN last.res.cov : Len(last.res.cov[r]) = size
            /\ Len(last.res.means) = size
            /\ {last.res.means[n] : n \in DOMAIN last.res.means}
                   = kept \cup {m + N : m \in kept}

\* C19: trace, partition_cov and partition_means raise, and return nothing,
\* when the mode list holds an index outside 0..N-1.
C19_InvalidModesRaise ==
    (/\ last.op \in {"trace", "partition_cov", "partition_means"}
     /\ \E n \in DOMAIN last.arg : last.arg[n] \notin 0..(objs[last.x].num_modes - 1)) =>
        last.out # "ok"

\* the part of C19 about partition_cov and partition_means, whose index lists
\* hold the invalid index itself
C19_PartitionsRaise ==
    (/\ last.op \in {"partition_cov", "partition_means"}
     /\ \E n \in DOMAIN last.arg : last.arg[n] \notin 0..(objs[last.x].num_modes - 1)) =>
        last.out # "ok"

\* the vectors added to proj_means and to the means of the measured mode
Shifts == {IntV(<<1, 0>>), IntV(<<0, 1>>), IntV(<<2, -1>>)}

\* means with v added to the x and the p entry of the mode
ShiftMode(means, mode, v) ==
    LET N == Len(means) \div 2
    IN  Tab(LAMBDA n : IF n = mode + 1 THEN NAdd(means[n], v[1])
                       ELSE IF n = mode + 1 + N THEN NAdd(means[n], v[2])
                       ELSE means[n], Len(means))

\* C20: the density returned by general_dyne depends on proj_means and on
\* the means b of the measured mode only through proj_means - b: adding one
\* vector to proj_means and to b gives the same density.
C20_DensityDependsOnDifference ==
    (last.op = "general_dyne" /\ last.out = "ok") =>
        \A v \in Shifts :
            general_dyne(objs[last.x].cov,
                         ShiftMode(objs[last.x].means, last.arg.modes[1], v),
                         last.arg.proj_cov, VAdd(last.arg.proj_means, v),
                         last.arg.modes, Hbar).prob = last.res.prob

----------------------------------------------------------------------------
(* Circuit components (lab_dev/circuit_components.py) and transformations  *)
(* (lab_dev/transformations/base.py). The wires of a component are four    *)
(* sets of modes: bra output, bra input, ket output, ket input. A          *)
(* representation is its type, its batch size, its number of variables and *)
(* a tag that tells its data from other data.                              *)

\* Wires(modes_out_bra, modes_in_bra, modes_out_ket, modes_in_ket)
Wires(ob, ib, ok, ik) == [ob |-> ob, ib |-> ib, ok |-> ok, ik |-> ik]

\* len(wires): the number of wires
NumWires(w) == Cardinality(w.ob) + Cardinality(w.ib) + Cardinality(w.ok) + Cardinality(w.ik)

Rep(type, batch, nvars, tag) == [type |-> type, batch |-> batch, nvars |-> nvars, tag |-> tag]

\* a component: its class, _name, _representation and _wires
Component(cls, name, rep, wires) == [cls |-> cls, name |-> name, rep |-> rep, wires |-> wires]

\* set(modes) of a list of modes
ModeSet(modes) == {modes[n] : n \in DOMAIN modes}

\* the test of on: some non-empty subset has another number of modes
OnRaises(self, modes) ==
    \E subset \in {self.wires.ob, self.wires.ib, self.wires.ok, self.wires.ik} :
        subset # {} /\ Cardinality(subset) # Cardinality(ModeSet(modes))

\* a version of on that assigns the new wires to self and returns self
on_InPlace(os, x, modes) ==
    LET self == os[x]
        m == ModeSet(modes)
        wires == Wires(IF self.wires.ob # {} THEN m ELSE {}, IF self.wires.ib # {} THEN m ELSE {},
                       IF self.wires.ok # {} THEN m ELSE {}, IF self.wires.ik # {} THEN m ELSE {})
    IN  IF OnRaises(self, modes) THEN [out |-> "ValueError", objs |-> os]
        ELSE [out |-> "ok", objs |-> [os EXCEPT ![x].wires = wires],
              ret |-> [self EXCEPT !.wires = wires]]

\* CircuitComponent.on(modes) applied to os[x]: the outcome, the objects
\* after the call and the component returned. light_copy copies __dict__ and
\* builds new Wires; the assignment ret._wires = wires is to the copy.
on(os, x, modes) ==
    LET self == os[x]
        m == ModeSet(modes)
        wires == Wires(IF self.wires.ob # {} THEN m ELSE {}, IF self.wires.ib # {} THEN m ELSE {},
                       IF self.wires.ok # {} THEN m ELSE {}, IF self.wires.ik # {} THEN m ELSE {})
        light_copy == Component(self.cls, self.name, self.rep,
                                Wires(self.wires.ob, self.wires.ib, self.wires.ok, self.wires.ik))
    IN  IF OnRaises(self, modes) THEN [out |-> "ValueError", objs |-> os]
        ELSE [out |-> "ok", objs |-> os, ret |-> [light_copy EXCEPT !.wires = wires]]

\* the lists of at most n elements of S, repetitions allowed
ListsUpTo(S, n) == UNION {[1..k -> S] : k \in 0..n}

\* the components alive: a ket, a two-mode unitary, a batched channel, a
\* component without wires, a bra, an operation from one mode to two, a
\* density matrix in Fock representation, a unitary in Fock representation
\* and a one-mode unitary
InitCircuit ==
    /\ objs = << Component("CircuitComponent", "psi", Rep("Bargmann", 1, 1, <<1>>),
                           Wires({}, {}, {0}, {})),
                 Component("Unitary", "U", Rep("Bargmann", 1, 4, <<2>>),
                           Wires({}, {}, {0, 1}, {0, 1})),
                 Component("Channel", "Phi", Rep("Bargmann", 2, 4, <<3>>),
                           Wires({1}, {1}, {1}, {1})),
                 Component("CircuitComponent", "one", Rep("Bargmann", 1, 0, <<4>>),
                           Wires({}, {}, {}, {})),
                 Component("CircuitComponent", "bra", Rep("Bargmann", 1, 1, <<5>>),
                           Wires({1}, {}, {}, {})),
                 Component("Operation", "V", Rep("Bargmann", 1, 3, <<6>>),
                           Wires({}, {}, {0, 1}, {0})),
                 Component("CircuitComponent", "rho", Rep("Fock", 1, 2, <<7>>),
                           Wires({0}, {}, {0}, {})),
                 Component("Unitary", "F", Rep("Fock", 1, 2, <<8>>),
                           Wires({}, {}, {0}, {0})),
                 Component("Unitary", "D", Rep("Bargmann", 1, 2, <<9>>),
                           Wires({}, {}, {0}, {0})) >>
    /\ last = [op |-> "init", x |-> 0, y |-> 0, arg |-> <<>>, out |-> "ok", res |-> <<>>,
               pre |-> <<>>]
    /\ pc = "circuit"
    /\ assoc = <<>>
    /\ SweepIdle
    /\ CallsIdle

\* one operation on objs[x] (and objs[y]) that leaves the objects os. No
\* operation of this section changes a component, so that every operation
\* is taken from the components as constructed.
Step(op, x, y, arg, r, os) ==
    /\ pc = "circuit"
    /\ last.op = "init"
    /\ objs' = os
    /\ last' = [op |-> op, x |-> x, y |-> y, arg |-> arg, out |-> r.out, res |-> r,
                pre |-> objs]
    /\ UNCHANGED <<pc, assoc, sweepVars, callVars>>

\* c.on(modes)
On ==
    \E x \in DOMAIN objs : \E modes \in ListsUpTo(0..(MaxModes - 1), 2) :
        Step("on", x, 0, modes, on(objs, x, modes), on(objs, x, modes).objs)

\* C21: c.on(modes) raises ValueError when the number of distinct modes
\* differs from the number of modes of a non-empty wire subset of c;
\* otherwise it returns a component whose non-empty subsets are on exactly
\* the given modes and whose empty subsets are empty. In both cases c has
\* the wires, the name and the representation it had before the call.
C21_OnChecksSizesAndKeepsC ==
    last.op = "on" =>
        LET c == last.pre[last.x]
            m == ModeSet(last.arg)
            subsets == <<c.wires.ob, c.wires.ib, c.wires.ok, c.wires.ik>>
            mismatch == \E n \in 1..4 : subsets[n] # {} /\ Cardinality(subsets[n]) # Cardinality(m)
        IN  /\ mismatch <=> last.out = "ValueError"
            /\ ~mismatch =>
                  /\ last.out = "ok"
                  /\ \A f \in {"ob", "ib", "ok", "ik"} :
                        last.res.ret.wires[f] = (IF c.wires[f] # {} THEN m ELSE {})
            /\ objs[last.x] = c

\* on returned a component on other modes than those of c
C21_Witness ==
    /\ last.op = "on" /\ last.out = "ok"
    /\ last.res.ret.wires # last.pre[last.x].wires
    /\ last.pre[last.x].wires.ok # {} /\ last.pre[last.x].wires.ob = {}

\* on raised because an input subset had another size than the output one
C21_WitnessRaise ==
    /\ last.op = "on" /\ last.out = "ValueError"
    /\ Cardinality(last.pre[last.x].wires.ok) = Cardinality(ModeSet(last.arg))
    /\ Len(last.arg) = 2

\* bool(wires.ket), bool(wires.bra): the component has wires on that side
HasKet(w) == w.ok \cup w.ik # {}
HasBra(w) == w.ob \cup w.ib # {}

\* wires.adjoint: ket and bra exchanged
AdjointWires(w) == Wires(w.ok, w.ik, w.ob, w.ib)

\* self.adjoint (AdjointView): the conjugate representation on the adjoint wires
adjoint(c) ==
    Component(c.cls, c.name, [c.rep EXCEPT !.tag = <<"adjoint", c.rep.tag>>],
              AdjointWires(c.wires))

\* wires @ wires: on each side the outputs of the first that the second does
\* not take as input and the outputs of the second; the inputs of the first
\* and the inputs of the second that the first does not feed
WiresMatMul(w, v) ==
    Wires((w.ob \ v.ib) \cup v.ob, w.ib \cup (v.ib \ w.ob),
          (w.ok \ v.ik) \cup v.ok, w.ik \cup (v.ik \ w.ok))

\* converters.to_fock(rep): a Bargmann representation becomes a Fock
\* representation of its data, any other representation is returned as it is
to_fock(rep) ==
    IF rep.type = "Bargmann"
    THEN Rep("Fock", rep.batch, rep.nvars, <<"to_fock", rep.tag>>)
    ELSE rep

\* self.to_fock_component()
to_fock_component(c) == Component(c.cls, c.name, to_fock(c.rep), c.wires)

\* a version of _to_fock_if_needed that looks at the first component only
to_fock_if_needed_SelfOnly(self, other) ==
    IF self.rep.type = "Fock" THEN <<self, to_fock_component(other)>>
    ELSE <<self, other>>

\* self._to_fock_if_needed(other): the pair of components that is contracted
to_fock_if_needed(self, other) ==
    IF other.rep.type = "Fock" THEN <<to_fock_component(self), other>>
    ELSE IF self.rep.type = "Fock" THEN <<self, to_fock_component(other)>>
    ELSE <<self, other>>

\* self @ other: the component returned, with the two representations that
\* were contracted
matmul(self, other) ==
    LET pair == to_fock_if_needed(self, other)
        ret == Rep(pair[1].rep.type, pair[1].rep.batch * pair[2].rep.batch,
                   NumWires(WiresMatMul(pair[1].wires, pair[2].wires)),
                   <<"@", pair[1].rep.tag, pair[2].rep.tag>>)
    IN  [out |-> "ok", contracted |-> <<pair[1].rep, pair[2].rep>>,
         ret |-> Component("CircuitComponent", "None", ret,
                           WiresMatMul(pair[1].wires, pair[2].wires))]

\* CircuitComponent.__rshift__(self, other)
rshift(self, other) ==
    IF HasKet(self.wires) /\ HasBra(self.wires)
    THEN IF HasKet(other.wires) /\ HasBra(other.wires)
         THEN [out |-> "ok", ret |-> matmul(self, other).ret]
         ELSE [out |-> "ok", ret |-> matmul(matmul(self, other).ret, adjoint(other)).ret]
    ELSE IF HasKet(self.wires)
    THEN IF HasKet(other.wires) /\ HasBra(other.wires)
         THEN [out |-> "ok", ret |-> matmul(matmul(self, adjoint(self)).ret, other).ret]
         ELSE IF HasKet(other.wires)
         THEN [out |-> "ok", ret |-> matmul(self, other).ret]
         ELSE [out |-> "ValueError"]
    ELSE IF HasBra(self.wires)
    THEN IF HasKet(other.wires) /\ HasBra(other.wires)
         THEN [out |-> "ok", ret |-> matmul(matmul(self, adjoint(self)).ret, other).ret]
         ELSE IF HasBra(other.wires)
         THEN [out |-> "ok", ret |-> matmul(self, other).ret]
         ELSE [out |-> "ValueError"]
    ELSE [out |-> "ValueError"]

\* cls._from_attributes(*args): the parameters are name, representation and
\* wires, none with a default; a call with other than three arguments
\* raises TypeError
from_attributes(cls, args) ==
    IF Len(args) = 3
    THEN [out |-> "ok", ret |-> Component(cls, args[1], args[2], args[3])]
    ELSE [out |-> "TypeError"]

\* Unitary.__rshift__ and Channel.__rshift__ of transformations/base.py: the
\* result of CircuitComponent.__rshift__, made a Unitary or a Channel again
\* when other is one
TransformationRshift(self, other) ==
    LET ret == rshift(self, other)
    IN  IF ret.out # "ok" THEN ret
        ELSE IF self.cls = "Unitary" /\ other.cls = "Unitary"
        THEN from_attributes("Unitary", <<ret.ret.rep, ret.ret.wires>>)
        ELSE IF other.cls \in {"Unitary", "Channel"}
        THEN from_attributes("Channel", <<ret.ret.rep, ret.ret.wires>>)
        ELSE ret

\* a >> b: the __rshift__ of the class of a
Rshift ==
    \E x \in DOMAIN objs : \E y \in DOMAIN objs :
        Step("rshift", x, y, <<>>,
             IF objs[x].cls \in {"Unitary", "Channel"}
             THEN TransformationRshift(objs[x], objs[y])
             ELSE rshift(objs[x], objs[y]),
             objs)

\* a @ b
MatMulCC ==
    \E x \in DOMAIN objs : \E y \in DOMAIN objs :
        Step("matmul", x, y, <<>>, matmul(objs[x], objs[y]), objs)

\* the sides on which a component has wires
Sides(c) ==
    IF c.wires.ok \cup c.wires.ik # {}
    THEN (IF c.wires.ob \cup c.wires.ib # {} THEN "both" ELSE "ket")
    ELSE (IF c.wires.ob \cup c.wires.ib # {} THEN "bra" ELSE "none")

\* equality of components: equal representations and equal wires
SameComponent(c, d) == c.rep = d.rep /\ c.wires = d.wires

\* C22: a >> b is a @ b when both have ket and bra wires or both have wires
\* on the same single side; a @ b @ b.adjoint when a has both sides and b
\* does not; a @ a.adjoint @ b when a has one side only and b has both; in
\* every other case it raises ValueError.
C22_RshiftTable ==
    last.op = "rshift" =>
        LET a == last.pre[last.x]
            b == last.pre[last.y]
            sa == Sides(a)
            sb == Sides(b)
        IN  IF (sa = "both" /\ sb = "both") \/ (sa = sb /\ sa \in {"ket", "bra"})
            THEN last.out = "ok" /\ SameComponent(last.res.ret, matmul(a, b).ret)
            ELSE IF sa = "both"
            THEN last.out = "ok"
                 /\ SameComponent(last.res.ret, matmul(matmul(a, b).ret, adjoint(b)).ret)
            ELSE IF sa \in {"ket", "bra"} /\ sb = "both"
            THEN last.out = "ok"
                 /\ SameComponent(last.res.ret, matmul(matmul(a, adjoint(a)).ret, b).ret)
            ELSE last.out = "ValueError"

\* the same statement for the components whose >> is that of CircuitComponent
C22_ComponentRshiftTable ==
    (last.op = "rshift" /\ last.pre[last.x].cls \notin {"Unitary", "Channel"}) =>
        LET a == last.pre[last.x]
            b == last.pre[last.y]
            sa == Sides(a)
            sb == Sides(b)
        IN  IF (sa = "both" /\ sb = "both") \/ (sa = sb /\ sa \in {"ket", "bra"})
            THEN last.out = "ok" /\ SameComponent(last.res.ret, matmul(a, b).ret)
            ELSE IF sa = "both"
            THEN last.out = "ok"
                 /\ SameComponent(last.res.ret, matmul(matmul(a, b).ret, adjoint(b)).ret)
            ELSE IF sa \in {"ket", "bra"} /\ sb = "both"
            THEN last.out = "ok"
                 /\ SameComponent(last.res.ret, matmul(matmul(a, adjoint(a)).ret, b).ret)
            ELSE last.out = "ValueError"

\* a ket was sent through a channel: the channel acted on ket @ ket.adjoint
C22_Witness ==
    /\ last.op = "rshift" /\ last.out = "ok"
    /\ Sides(last.pre[last.x]) = "ket" /\ Sides(last.pre[last.y]) = "both"
    /\ last.res.ret.wires = Wires({0, 1}, {1}, {0, 1}, {1})

\* a density matrix was sent through a unitary
C22_WitnessAdjoint ==
    /\ last.op = "rshift" /\ last.out = "ok"
    /\ Sides(last.pre[last.x]) = "both" /\ Sides(last.pre[last.y]) = "ket"
    /\ last.res.ret.rep.tag[1] = "@"

\* a ket met a bra and >> raised
C22_WitnessRaise ==
    /\ last.op = "rshift" /\ last.out = "ValueError"
    /\ Sides(last.pre[last.x]) = "ket" /\ Sides(last.pre[last.y]) = "bra"

\* C28: in a @ b the two representations contracted are both Fock when a or
\* b has a Fock representation, the other being converted with to_fock and
\* a Fock representation passing unchanged; both stay Bargmann when neither
\* is Fock; a and b keep the representation they had.
C28_ContractionInOneRepresentation ==
    last.op = "matmul" =>
        LET a == last.pre[last.x]
            b == last.pre[last.y]
            ra == last.res.contracted[1]
            rb == last.res.contracted[2]
        IN  /\ (a.rep.type = "Fock" \/ b.rep.type = "Fock") =>
                  /\ ra.type = "Fock" /\ rb.type = "Fock"
                  /\ a.rep.type = "Fock" => ra = a.rep
                  /\ b.rep.type = "Fock" => rb = b.rep
                  /\ a.rep.type # "Fock" => ra = to_fock(a.rep)
                  /\ b.rep.type # "Fock" => rb = to_fock(b.rep)
            /\ (a.rep.type # "Fock" /\ b.rep.type # "Fock") =>
                  /\ ra = a.rep /\ rb = b.rep
                  /\ ra.type = "Bargmann" /\ rb.type = "Bargmann"
            /\ objs[last.x].rep = a.rep
            /\ objs[last.y].rep = b.rep

\* a Fock component was contracted with a Bargmann one, which was converted
C28_Witness ==
    /\ last.op = "matmul"
    /\ last.pre[last.x].rep.type = "Fock" /\ last.pre[last.y].rep.type = "Bargmann"
    /\ last.res.contracted[2].type = "Fock"
    /\ objs[last.y].rep.type = "Bargmann"

\* the classes of transformations/base.py that inherit Transformation.inverse
Transformations == {"Operation", "Unitary", "Channel"}

\* Transformation.inverse(): the three tests, then math.inv of the matrix of
\* the dual (inverted tells that it was computed) and the component made by
\* self._from_attributes(Bargmann(...), self.wires)
inverse(self) ==
    IF Cardinality(self.wires.ib) + Cardinality(self.wires.ik)
         # Cardinality(self.wires.ob) + Cardinality(self.wires.ok)
    THEN [out |-> "NotImplementedError", inverted |-> FALSE]
    ELSE IF self.rep.type # "Bargmann"
    THEN [out |-> "NotImplementedError", inverted |-> FALSE]
    ELSE IF self.rep.batch > 1
    THEN [out |-> "NotImplementedError", inverted |-> FALSE]
    ELSE LET almost_inverse ==
                 from_attributes(self.cls,
                     <<Rep("Bargmann", 1, self.rep.nvars, <<"inv", self.rep.tag>>), self.wires>>)
         IN  IF almost_inverse.out # "ok"
             THEN [out |-> almost_inverse.out, inverted |-> TRUE]
             ELSE from_attributes(self.cls,
                      <<Rep("Bargmann", 1, self.rep.nvars, <<"inv", self.rep.tag>>),
                        self.wires, <<self.name, "_inv">> >>) @@ [inverted |-> TRUE]

\* t.inverse()
Inverse ==
    \E x \in DOMAIN objs :
        /\ objs[x].cls \in Transformations
        /\ Step("inverse", x, 0, <<>>, inverse(objs[x]), objs)

\* the transformation differs in its wire counts, is not Bargmann or is batched
Unsupported(t) ==
    \/ Cardinality(t.wires.ib) + Cardinality(t.wires.ik)
         # Cardinality(t.wires.ob) + Cardinality(t.wires.ok)
    \/ t.rep.type # "Bargmann"
    \/ t.rep.batch > 1

\* C23: inverse() raises NotImplementedError, before any matrix inverse is
\* computed, when the numbers of input and output wires differ, when the
\* representation is not Bargmann or when the batch size is greater than 1;
\* when none of the three holds it returns a transformation with the wires
\* of the original.
C23_InverseOfSupported ==
    last.op = "inverse" =>
        LET t == last.pre[last.x]
        IN  /\ Unsupported(t) => (last.out = "NotImplementedError" /\ ~last.res.inverted)
            /\ ~Unsupported(t) => (last.out = "ok" /\ last.res.ret.wires = t.wires)

\* the part of C23 on the three tests: an unsupported transformation raises
\* NotImplementedError before the inverse is computed, and no supported one
\* raises it
C23_UnsupportedRaiseFirst ==
    last.op = "inverse" =>
        LET t == last.pre[last.x]
        IN  /\ Unsupported(t) <=> last.out = "NotImplementedError"
            /\ Unsupported(t) => ~last.res.inverted

\* a transformation in Fock representation was asked for its inverse
C23_WitnessUnsupported ==
    /\ last.op = "inverse" /\ last.out = "NotImplementedError"
    /\ last.pre[last.x].rep.type = "Fock"

\* Operation.__init__(modes_out, modes_in, representation, name): the call of
\* CircuitComponent.__init__ with modes_out_ket = modes_in and
\* modes_in_ket = modes_out
Operation(cls, modes_out, modes_in, representation, name) ==
    Component(cls, name, representation,
              Wires({}, {}, ModeSet(modes_in), ModeSet(modes_out)))

\* Map.__init__(modes_out, modes_in, representation, name)
Map(cls, modes_out, modes_in, representation, name) ==
    Component(cls, name, representation,
              Wires(ModeSet(modes_out), ModeSet(modes_in),
                    ModeSet(modes_out), ModeSet(modes_in)))

\* cls.from_bargmann(modes_out, modes_in, triple, name): cls(modes_out,
\* modes_in, Bargmann(*triple), name)
from_bargmann(cls, modes_out, modes_in, triple, name) ==
    IF cls \in {"Operation", "Unitary"}
    THEN Operation(cls, modes_out, modes_in, triple, name)
    ELSE Map(cls, modes_out, modes_in, triple, name)

\* Operation(modes_out, modes_in, representation) and the same call of Map,
\* with the representation of a component alive
NewOperation ==
    \E x \in DOMAIN objs : \E cls \in {"Operation", "Map"} :
    \E modes_out \in ListsUpTo(0..(MaxModes - 1), 2) :
    \E modes_in \in ListsUpTo(0..(MaxModes - 1), 2) :
        Step("new", x, 0, <<cls, modes_out, modes_in>>,
             [out |-> "ok",
              ret |-> IF cls = "Operation"
                      THEN Operation(cls, modes_out, modes_in, objs[x].rep, cls)
                      ELSE Map(cls, modes_out, modes_in, objs[x].rep, cls)],
             objs)

\* cls.from_bargmann(modes_out, modes_in, triple) for the subclasses
FromBargmann ==
    \E x \in DOMAIN objs : \E cls \in {"Unitary", "Channel"} :
    \E modes_out \in ListsUpTo(0..(MaxModes - 1), 2) :
    \E modes_in \in ListsUpTo(0..(MaxModes - 1), 2) :
        /\ objs[x].rep.type = "Bargmann"
        /\ Step("from_bargmann", x, 0, <<cls, modes_out, modes_in>>,
                [out |-> "ok",
                 ret |-> from_bargmann(cls, modes_out, modes_in, objs[x].rep, cls)],
                objs)

\* C25: Operation(modes_out, modes_in, representation) has ket wires only,
\* its ket output wires on modes_out and its ket input wires on modes_in,
\* as modes_out and modes_in mean in Map; the same holds for a subclass of
\* Operation built through from_bargmann.
C25_OperationWiresAsGiven ==
    (last.op \in {"new", "from_bargmann"} /\ last.arg[1] \in {"Operation", "Unitary"}) =>
        /\ last.res.ret.wires.ob = {} /\ last.res.ret.wires.ib = {}
        /\ last.res.ret.wires.ok = ModeSet(last.arg[2])
        /\ last.res.ret.wires.ik = ModeSet(last.arg[3])

\* Map and its subclasses put modes_out on the outputs and modes_in on the
\* inputs of both sides
C25_MapWiresAsGiven ==
    (last.op \in {"new", "from_bargmann"} /\ last.arg[1] \in {"Map", "Channel"}) =>
        /\ last.res.ret.wires.ob = ModeSet(last.arg[2])
        /\ last.res.ret.wires.ok = ModeSet(last.arg[2])
        /\ last.res.ret.wires.ib = ModeSet(last.arg[3])
        /\ last.res.ret.wires.ik = ModeSet(last.arg[3])

NextCircuit == On \/ Rshift \/ MatMulCC \/ Inverse \/ NewOperation \/ FromBargmann

SpecCircuit == InitCircuit /\ [][NextCircuit]_vars

----------------------------------------------------------------------------
(* Neighbours of a lattice index (math/lattice/neighbours.py). A pivot is  *)
(* an array of integers that the functions change and restore in place.    *)

\* upper_neighbors_gen(pivot): the values of pivot at each yield and the
\* pivot when the generator is exhausted
upper_neighbors_gen(pivot) ==
    [yielded |-> [i \in 1..Len(pivot) |-> [pivot EXCEPT ![i] = @ + 1]],
     pivot |-> pivot]

\* upper_neighbors_fn(pivot): the array Z and the pivot at the return. For
\* each i the loop does pivot[i] -= 1, Z[i] = pivot, pivot[i] += 1.
upper_neighbors_fn(pivot) ==
    [Z |-> [i \in 1..Len(pivot) |-> [pivot EXCEPT ![i] = @ - 1]],
     pivot |-> pivot]

\* the pivots: every index of one to MaxModes modes with entries up to MaxCutoff
LatticePivots == UNION {[1..n -> 0..MaxCutoff] : n \in 1..MaxModes}

\* the sequence of the elements of the set S of sequences, in some order
RECURSIVE SeqOf(_)
SeqOf(S) == IF S = {} THEN <<>> ELSE LET e == CHOOSE e \in S : TRUE IN <<e>> \o SeqOf(S \ {e})

InitLattice ==
    /\ objs = SeqOf(LatticePivots)
    /\ last = [op |-> "init", x |-> 0, res |-> <<>>, pre |-> <<>>]
    /\ pc = "lattice"
    /\ assoc = <<>>
    /\ SweepIdle
    /\ CallsIdle

\* upper_neighbors_fn(objs[x])
UpperNeighborsFn ==
    \E x \in DOMAIN objs :
        /\ pc = "lattice"
        /\ last.op = "init"
        /\ last' = [op |-> "upper_neighbors_fn", x |-> x,
                    res |-> upper_neighbors_fn(objs[x]).Z, pre |-> objs[x]]
        /\ objs' = [objs EXCEPT ![x] = upper_neighbors_fn(objs[x]).pivot]
        /\ UNCHANGED <<pc, assoc, sweepVars, callVars>>

\* list(upper_neighbors_gen(objs[x])), each yielded value copied
UpperNeighborsGen ==
    \E x \in DOMAIN objs :
        /\ pc = "lattice"
        /\ last.op = "init"
        /\ last' = [op |-> "upper_neighbors_gen", x |-> x,
                    res |-> upper_neighbors_gen(objs[x]).yielded, pre |-> objs[x]]
        /\ objs' = [objs EXCEPT ![x] = upper_neighbors_gen(objs[x]).pivot]
        /\ UNCHANGED <<pc, assoc, sweepVars, callVars>>

NextLattice == UpperNeighborsFn \/ UpperNeighborsGen

SpecLattice == InitLattice /\ [][NextLattice]_vars

\* C24: upper_neighbors_fn(pivot) returns the n x n array whose row i is
\* pivot with entry i increased by 1, the indices that
\* upper_neighbors_gen(pivot) yields in the same order, and pivot has its
\* original value when the function returns.
C24_UpperNeighborsFnAgreesWithGen ==
    last.op = "upper_neighbors_fn" =>
        /\ Len(last.res) = Len(last.pre)
        /\ \A i \in 1..Len(last.pre) : last.res[i] = [last.pre EXCEPT ![i] = @ + 1]
        /\ last.res = upper_neighbors_gen(last.pre).yielded
        /\ objs[last.x] = last.pre

\* the part of C24 on the pivot: it has its value again at the return
C24_PivotRestored ==
    last.op \in {"upper_neighbors_fn", "upper_neighbors_gen"} => objs[last.x] = last.pre

----------------------------------------------------------------------------
(* get_partitions with its dictionary (math/compactFockAmplitudes.py).     *)
(* PARTITIONS is a function from the keys <<M, N>> to arrays of pivots.     *)

\* a version of the assignment that files the pivots under the next level
StorePartitions_NextLevel(PARTITIONS, M, N, pivots) ==
    PARTITIONS @@ (<<M, N + 1>> :> pivots)

\* PARTITIONS[(M,N)] = pivots, for a key that is not in PARTITIONS
StorePartitions(PARTITIONS, M, N, pivots) ==
    PARTITIONS @@ (<<M, N>> :> pivots)

\* get_partitions(M, N, PARTITIONS, BINOM): the rows returned and PARTITIONS
\* after the call. The loop over n threads PARTITIONS through the calls for
\* (M-1, N-n).
RECURSIVE get_partitions_in(_, _, _)
RECURSIVE FillPivotsIn(_, _, _, _, _, _)
FillPivotsIn(M, N, n, T, pivots, PARTITIONS) ==
    IF n > N THEN [pivots |-> pivots, PARTITIONS |-> PARTITIONS]
    ELSE LET L == len_lvl(M - 1, N - n)
             sub == get_partitions_in(M - 1, N - n, PARTITIONS)
         IN  FillPivotsIn(M, N, n + 1, T + L,
                 Tab(LAMBDA r : IF T < r /\ r <= T + L THEN <<n>> \o sub.rows[r - T]
                                ELSE pivots[r], Len(pivots)),
                 sub.PARTITIONS)

get_partitions_in(M, N, PARTITIONS) ==
    IF <<M, N>> \in DOMAIN PARTITIONS
    THEN [rows |-> PARTITIONS[<<M, N>>], PARTITIONS |-> PARTITIONS]
    ELSE IF M = 1 THEN [rows |-> << <<N>> >>, PARTITIONS |-> PARTITIONS]
    ELSE LET f == FillPivotsIn(M, N, 0, 0, Tab(LAMBDA r : Tab(LAMBDA c : 0, M), len_lvl(M, N)),
                               PARTITIONS)
         IN  [rows |-> f.pivots,
              PARTITIONS |-> StorePartitions(f.PARTITIONS, M, N, f.pivots)]

\* Dict.empty(...)
InitPartitions ==
    /\ objs = [k \in {} |-> <<>>]
    /\ last = [op |-> "init", M |-> 0, N |-> 0, rows |-> <<>>, pre |-> <<>>]
    /\ pc = "partitions"
    /\ assoc = <<>>
    /\ SweepIdle
    /\ CallsIdle

\* get_partitions(M, N, PARTITIONS, BINOM) on the dictionary as it is
GetPartitions ==
    \E M \in 1..MaxModes : \E N \in 0..MaxCutoff :
        /\ pc = "partitions"
        /\ last' = [op |-> "get_partitions", M |-> M, N |-> N,
                    rows |-> get_partitions_in(M, N, objs).rows, pre |-> objs]
        /\ objs' = get_partitions_in(M, N, objs).PARTITIONS
        /\ UNCHANGED <<pc, assoc, sweepVars, callVars>>

NextPartitions == GetPartitions

SpecPartitions == InitPartitions /\ [][NextPartitions]_vars

\* the M-tuples of non-negative integers with sum N
RECURSIVE SumOf(_)
SumOf(t) == IF t = <<>> THEN 0 ELSE t[1] + SumOf(Tail(t))

Compositions(M, N) == {t \in [1..M -> 0..N] : SumOf(t) = N}

\* C27: get_partitions(M, N, PARTITIONS, BINOM) returns every M-tuple of
\* non-negative integers with sum N exactly once, in C(M-1+N, N) rows; the
\* rows are the same whether or not (M, N) or a key of the recursion was in
\* PARTITIONS; no entry that was in PARTITIONS is changed or removed.
C27_PartitionsCompleteAndCacheNeutral ==
    last.op = "get_partitions" =>
        /\ {last.rows[r] : r \in DOMAIN last.rows} = Compositions(last.M, last.N)
        /\ Len(last.rows) = binom(last.M - 1 + last.N, last.N)
        /\ \A r1, r2 \in DOMAIN last.rows : last.rows[r1] = last.rows[r2] => r1 = r2
        /\ last.rows = get_partitions(last.M, last.N)
        /\ \A k \in DOMAIN last.pre : k \in DOMAIN objs /\ objs[k] = last.pre[k]

\* a call for three modes answered from the dictionary, and one that found
\* recursed keys in it but not its own
C27_Witness ==
    /\ last.op = "get_partitions" /\ last.M = 3 /\ last.N = 2
    /\ <<3, 2>> \in DOMAIN last.pre

C27_WitnessRecursed ==
    /\ last.op = "get_partitions" /\ last.M = 3 /\ last.N = 2
    /\ <<3, 2>> \notin DOMAIN last.pre /\ <<2, 1>> \in DOMAIN last.pre
    /\ <<2, 2>> \notin DOMAIN last.pre

----------------------------------------------------------------------------
(* State.fock_probabilities (lab/abstract/state.py). A tensor is kept as   *)
(* its shape, the list of its dimensions; None is the empty list.          *)

None == <<>>

\* a state of lab/abstract/state.py: _ket or _dm is the tensor stored, and
\* _fock_probabilities is None after construction (line 60)
LabState(is_gaussian, is_mixed, num_modes, stored) ==
    [is_gaussian |-> is_gaussian, is_mixed |-> is_mixed, num_modes |-> num_modes,
     stored |-> stored, fock_probabilities |-> None]

\* self.ket(cutoffs) of a pure state and self.dm(cutoffs) of a mixed state,
\* as the tensor returned (its first num_modes dimensions) and the tensor
\* stored: a Gaussian state computes and stores fock_representation with
\* shape = cutoffs, a Fock state pads and slices its tensor to cutoffs
FockTensor(self, cutoffs) ==
    IF self.is_gaussian THEN [ret |-> cutoffs, stored |-> cutoffs]
    ELSE [ret |-> cutoffs, stored |-> self.stored]

\* self.fock_probabilities(cutoffs): the tensor returned and self after the
\* call. ket_to_probs and dm_to_probs give a tensor with one dimension for
\* each mode, of the size of the ket or the density matrix.
fock_probabilities(self, cutoffs) ==
    IF self.fock_probabilities = None
    THEN [ret |-> FockTensor(self, cutoffs).ret,
          self |-> [self EXCEPT !.fock_probabilities = FockTensor(self, cutoffs).ret,
                                !.stored = FockTensor(self, cutoffs).stored]]
    ELSE [ret |-> self.fock_probabilities, self |-> self]

\* a pure Gaussian state on one mode, a mixed Gaussian state on two modes
\* and a pure state on one mode given by its ket
InitProbs ==
    /\ objs = << LabState(TRUE, FALSE, 1, None),
                 LabState(TRUE, TRUE, 2, None),
                 LabState(FALSE, FALSE, 1, <<MaxCutoff>>) >>
    /\ last = [op |-> "init", x |-> 0, arg |-> <<>>, res |-> <<>>, pre |-> <<>>]
    /\ pc = "probs"
    /\ assoc = <<>>
    /\ SweepIdle
    /\ CallsIdle

\* objs[x].fock_probabilities(cutoffs)
FockProbabilities ==
    \E x \in DOMAIN objs : \E cutoffs \in [1..objs[x].num_modes -> 1..MaxCutoff] :
        /\ pc = "probs"
        /\ last' = [op |-> "fock_probabilities", x |-> x, arg |-> cutoffs,
                    res |-> fock_probabilities(objs[x], cutoffs).ret, pre |-> objs]
        /\ objs' = [objs EXCEPT ![x] = fock_probabilities(objs[x], cutoffs).self]
        /\ UNCHANGED <<pc, assoc, sweepVars, callVars>>

NextProbs == FockProbabilities

SpecProbs == InitProbs /\ [][NextProbs]_vars

\* C29: state.fock_probabilities(cutoffs) returns the probabilities for the
\* cutoffs of that call: a call with cutoffs c2 after a call with other
\* cutoffs c1 returns a tensor of shape c2.
C29_ProbabilitiesOfThisCall ==
    last.op = "fock_probabilities" => last.res = last.arg

\* the first call on a state returns a tensor of the shape asked for
C29_FirstCallHasShape ==
    (last.op = "fock_probabilities" /\ last.pre[last.x].fock_probabilities = None)
        => last.res = last.arg

----------------------------------------------------------------------------
(* XPTensor arithmetic (utils/xptensor.py) on vectors. The tensor of a     *)
(* vector holds one entry for each of its modes; a scalar is the fraction  *)
(* <<p, q>>. An object is named by its position in objs, 0 naming an       *)
(* object made by the operation.                                           *)

\* XPVector(tensor, modes); XPVector() has no tensor
XPVector(tensor, modes) == [hasTensor |-> TRUE, tensor |-> tensor, modes |-> modes]
NullVector == [hasTensor |-> FALSE, tensor |-> <<>>, modes |-> <<>>]

\* other * self.tensor
ScaleTensor(s, tensor) == [k \in DOMAIN tensor |-> (tensor[k] * s[1]) \div s[2]]

\* self.__rmul__(other): a null vector is returned as it is; otherwise
\* self.tensor = other * self.tensor and self is returned
rmul(os, x, s) ==
    IF ~os[x].hasTensor THEN [out |-> "ok", obj |-> x, new |-> NullVector, objs |-> os]
    ELSE [out |-> "ok", obj |-> x, new |-> NullVector,
          objs |-> [os EXCEPT ![x].tensor = ScaleTensor(s, os[x].tensor)]]

\* sorted(set(a).union(b)) of two lists of modes
RECURSIVE SortedSet(_)
SortedSet(S) ==
    IF S = {} THEN <<>>
    ELSE LET m == CHOOSE m \in S : \A n \in S : m <= n IN <<m>> \o SortedSet(S \ {m})

\* outmodes.index(o)
IndexOf(modes, o) == CHOOSE k \in DOMAIN modes : modes[k] = o

\* update_add_tensor(to_update, indices, t): the entries of t added at the
\* positions of its modes in outmodes
UpdateAdd(to_update, outmodes, t) ==
    [k \in DOMAIN to_update |->
        to_update[k] + (IF \E j \in DOMAIN t.modes : IndexOf(outmodes, t.modes[j]) = k
                        THEN t.tensor[CHOOSE j \in DOMAIN t.modes :
                                          IndexOf(outmodes, t.modes[j]) = k]
                        ELSE 0)]

\* self.__add__(other) for two vectors, self = os[x] and other = os[y]
RECURSIVE add(_, _, _)
add(os, x, y) ==
    LET self == os[x]
        other == os[y]
        outmodes == SortedSet(ModeSet(self.modes) \cup ModeSet(other.modes))
    IN  IF ~self.hasTensor /\ ~other.hasTensor
        THEN [out |-> "ok", obj |-> 0, new |-> NullVector, objs |-> os]
        ELSE IF ~self.hasTensor
        THEN [out |-> "ok", obj |-> y, new |-> NullVector, objs |-> os]
        ELSE IF ~other.hasTensor
        THEN add(os, y, x)
        ELSE IF self.modes = other.modes
        THEN [out |-> "ok", obj |-> x, new |-> NullVector,
              objs |-> [os EXCEPT ![x].tensor =
                            [k \in DOMAIN self.tensor |-> self.tensor[k] + other.tensor[k]]]]
        ELSE IF ModeSet(other.modes) \subseteq ModeSet(self.modes)
        THEN [out |-> "ok", obj |-> 0, objs |-> os,
              new |-> XPVector(UpdateAdd(self.tensor, outmodes, other), outmodes)]
        ELSE IF ModeSet(self.modes) \subseteq ModeSet(other.modes)
        THEN [out |-> "ok", obj |-> 0, objs |-> os,
              new |-> XPVector(UpdateAdd(other.tensor, outmodes, self), outmodes)]
        ELSE [out |-> "ok", obj |-> 0, objs |-> os,
              new |-> XPVector(UpdateAdd(UpdateAdd([k \in DOMAIN outmodes |-> 0],
                                                   outmodes, self), outmodes, other),
                               outmodes)]

\* self.__sub__(other): self + (-1) * other
sub(os, x, y) == add(rmul(os, y, <<-1, 1>>).objs, x, y)

\* self.__truediv__(other): (1 / other) * self
truediv(os, x, s) == rmul(os, x, <<s[2], s[1]>>)

\* the scalars of the multiplications and divisions
XPScalars == {<<-1, 1>>, <<2, 1>>, <<3, 1>>, <<6, 1>>}

\* five vectors on the modes 0, 1 and 2, and a null vector
InitXP ==
    /\ objs = << XPVector(<<6>>, <<0>>), XPVector(<<12>>, <<0>>),
                 XPVector(<<6, 12>>, <<0, 1>>), XPVector(<<18>>, <<1>>),
                 NullVector, XPVector(<<6, 6>>, <<1, 2>>) >>
    /\ last = [op |-> "init", x |-> 0, y |-> 0, arg |-> <<>>, res |-> <<>>, pre |-> <<>>]
    /\ pc = "xp"
    /\ assoc = <<>>
    /\ SweepIdle
    /\ CallsIdle

\* one operation on the vectors as constructed
XPStep(op, x, y, arg, r) ==
    /\ pc = "xp"
    /\ last.op = "init"
    /\ last' = [op |-> op, x |-> x, y |-> y, arg |-> arg, res |-> r, pre |-> objs]
    /\ objs' = r.objs
    /\ UNCHANGED <<pc, assoc, sweepVars, callVars>>

\* a + b
XPAdd == \E x \in DOMAIN objs : \E y \in DOMAIN objs : XPStep("add", x, y, <<>>, add(objs, x, y))

\* a - b
XPSub == \E x \in DOMAIN objs : \E y \in DOMAIN objs : XPStep("sub", x, y, <<>>, sub(objs, x, y))

\* s * a
XPMul == \E x \in DOMAIN objs : \E s \in XPScalars : XPStep("mul", x, x, s, rmul(objs, x, s))

\* a / s
XPTrueDiv == \E x \in DOMAIN objs : \E s \in XPScalars : XPStep("truediv", x, x, s, truediv(objs, x, s))

NextXP == XPAdd \/ XPSub \/ XPMul \/ XPTrueDiv

SpecXP == InitXP /\ [][NextXP]_vars

\* C30: after a - b, a + b, s * a or a / s the tensors held by a and b are
\* the same as before, and the result is a different object from both
\* operands.
C30_OperandsKept ==
    last.op \in {"add", "sub", "mul", "truediv"} =>
        /\ objs[last.x] = last.pre[last.x]
        /\ objs[last.y] = last.pre[last.y]
        /\ last.res.obj \notin {last.x, last.y}

\* the sum of two vectors on different modes is a new vector and the
\* operands are kept
C30_DifferentModesKept ==
    (last.op = "add" /\ last.pre[last.x].hasTensor /\ last.pre[last.y].hasTensor
       /\ last.pre[last.x].modes # last.pre[last.y].modes) =>
        /\ objs = last.pre
        /\ last.res.obj = 0

====
